---------------------------- MODULE Spec2Model ----------------------------
(***************************************************************************)
(* Model of pkg/golinters/goanalysis/runner.go: the parallel go/analysis   *)
(* driver of golangci-lint.  One action is one (analyzer, package) pair.   *)
(* The driver builds the action graph, loads every package (one task per   *)
(* package), runs every action (one task per action), and collects the     *)
(* diagnostics of the root actions.                                        *)
(***************************************************************************)
EXTENDS Integers, Sequences, FiniteSets, TLC

VARIABLES
  world,      \* which analyzers/packages the driver was called with
  input,      \* the analyzers and packages of a call drawn from GraphWorlds
  nf,         \* the locals of a NeedFacts call: q, seen, and what it returned
  run,        \* number of the current call of runner.run
  phase,      \* position of the runner.run call
  actions,    \* the action structs, keyed by <<analyzer, package>>
  roots,      \* the roots list built by runner.analyze
  allocs,     \* the keys for which mkAction allocated an action, in order
  pkgs,       \* the packages.Package structs (fields the driver writes)
  lp,         \* the loadingPackage structs and the position of their tasks
  loadSem,    \* number of permits of loadSem that are taken
  exportMu,   \* the export-data mutex: "free", or the package whose task holds it
  errCh,      \* the errors sent on errCh, in order
  apc,        \* position of each action task
  panicsCh,   \* the panics sent on panicsCh, in order
  cache,      \* the facts cache (pkgcache), kept from one run to the next
  trims,      \* number of calls of pkgCache.Trim
  env,        \* what the file system, the sources and the analyzers do
  ret,        \* what runner.run returned
  prev        \* what the previous call returned, and the cache it started from

vars == <<world, input, nf, run, phase, actions, roots, allocs, pkgs, lp, loadSem, exportMu,
          errCh, apc, panicsCh, cache, trims, env, ret, prev>>

-----------------------------------------------------------------------------
(* Bounds of the model *)

\* number of consecutive calls of runner.run on the same inputs
MaxRuns == 2
\* capacity of loadSem: runtime.GOMAXPROCS(-1) of the host
LoadSemCap == 2
\* longest diagnostics list drawn for an action by the collector's harness
MaxDiags == 2

-----------------------------------------------------------------------------
(* Strings.  A string is a sequence of character codes, so that            *)
(* sort.Strings orders them the way Go does.                                *)

RECURSIVE StrLess(_, _)
StrLess(s, t) ==
  IF s = <<>> THEN t # <<>>
  ELSE IF t = <<>> THEN FALSE
  ELSE IF Head(s) < Head(t) THEN TRUE
  ELSE IF Head(s) > Head(t) THEN FALSE
  ELSE StrLess(Tail(s), Tail(t))

RECURSIVE InsertSorted(_, _)
InsertSorted(s, sorted) ==
  IF sorted = <<>> THEN <<s>>
  ELSE IF StrLess(s, Head(sorted)) THEN <<s>> \o sorted
  ELSE <<Head(sorted)>> \o InsertSorted(s, Tail(sorted))

RECURSIVE SortFrom(_, _)
SortFrom(list, sorted) ==
  IF list = <<>> THEN sorted
  ELSE SortFrom(Tail(list), InsertSorted(Head(list), sorted))

UnsortedStrings(list) == list

\* sort.Strings
SortStrings(list) == SortFrom(list, <<>>)

RECURSIVE SetToSeq(_)
SetToSeq(S) ==
  IF S = {} THEN <<>>
  ELSE LET x == CHOOSE y \in S : TRUE IN <<x>> \o SetToSeq(S \ {x})

Range(f) == {f[i] : i \in DOMAIN f}

-----------------------------------------------------------------------------
(* The inputs of runner.run.  MainWorld: the initial package p imports q,  *)
(* q imports r; the analyzer F declares a fact type and requires S.        *)
(* TestWorld: foo and its test variant foo.test hold the same file foo.go  *)
(* and both import lib.                                                     *)

AtSign == <<64>>

MainWorld ==
  [ pkgs      |-> {"p", "q", "r"},
    imports   |-> [x \in {"p", "q", "r"} |->
                     IF x = "p" THEN {"q"} ELSE IF x = "q" THEN {"r"} ELSE {}],
    path      |-> [x \in {"p", "q", "r"} |->
                     IF x = "p" THEN <<112>> ELSE IF x = "q" THEN <<113>> ELSE <<114>>],
    file      |-> [x \in {"p", "q", "r"} |->
                     IF x = "p" THEN "p.go" ELSE IF x = "q" THEN "q.go" ELSE "r.go"],
    base      |-> [x \in {"p", "q", "r"} |->
                     IF x = "p" THEN 0 ELSE IF x = "q" THEN 10 ELSE 20],
    initial   |-> <<"p">>,
    analyzers |-> <<"F">>,
    requires  |-> [a \in {"F", "S"} |-> IF a = "F" THEN <<"S">> ELSE <<>>],
    factTypes |-> [a \in {"F", "S"} |-> IF a = "F" THEN 1 ELSE 0],
    runDespiteErrors |-> [a \in {"F", "S"} |-> FALSE],
    name      |-> [a \in {"F", "S"} |-> IF a = "F" THEN <<70>> ELSE <<83>>],
    pre       |-> [x \in {"p", "q", "r"} |-> {"none", "typed", "illtyped"}],
    exp       |-> [x \in {"p", "q", "r"} |-> {"ok", "bad"}],
    src       |-> [x \in {"p", "q", "r"} |-> {"ok", "bad"}],
    outcomes  |-> [k \in {"F", "S"} \X {"p", "q", "r"} |-> {"ok", "err", "panic"}] ]

TestWorld ==
  [ pkgs      |-> {"foo", "foo.test", "lib"},
    imports   |-> [x \in {"foo", "foo.test", "lib"} |->
                     IF x = "lib" THEN {} ELSE {"lib"}],
    path      |-> [x \in {"foo", "foo.test", "lib"} |->
                     IF x = "foo" THEN <<102>>
                     ELSE IF x = "foo.test" THEN <<102, 46, 116>> ELSE <<108>>],
    file      |-> [x \in {"foo", "foo.test", "lib"} |->
                     IF x = "lib" THEN "lib.go" ELSE "foo.go"],
    base      |-> [x \in {"foo", "foo.test", "lib"} |->
                     IF x = "foo" THEN 0 ELSE IF x = "foo.test" THEN 10 ELSE 20],
    initial   |-> <<"foo", "foo.test">>,
    analyzers |-> <<"F">>,
    requires  |-> [a \in {"F", "S"} |-> IF a = "F" THEN <<"S">> ELSE <<>>],
    factTypes |-> [a \in {"F", "S"} |-> IF a = "F" THEN 1 ELSE 0],
    runDespiteErrors |-> [a \in {"F", "S"} |-> FALSE],
    name      |-> [a \in {"F", "S"} |-> IF a = "F" THEN <<70>> ELSE <<83>>],
    pre       |-> [x \in {"foo", "foo.test", "lib"} |-> {"none"}],
    exp       |-> [x \in {"foo", "foo.test", "lib"} |-> {"ok"}],
    src       |-> [x \in {"foo", "foo.test", "lib"} |-> {"ok"}],
    outcomes  |-> [k \in {"F", "S"} \X {"foo", "foo.test", "lib"} |-> {"ok", "err"}] ]

W == IF world = "main" THEN MainWorld ELSE IF world = "test" THEN TestWorld ELSE input

\* pkg.Fset.Position: the file position of a token.Pos.  Every package adds
\* its own copy of its file to the shared file set, at its own base.
Position(w, pkg, pos) == [filename |-> w.file[pkg], offset |-> pos - w.base[pkg]]

\* act.String(): "analyzer@package"
String(w, k) == w.name[k[1]] \o AtSign \o w.path[k[2]]

-----------------------------------------------------------------------------
(* Errors *)

NoErr == [kind |-> "nil", names |-> <<>>]

RunErr == [kind |-> "analyzer error", names |-> <<>>]

SkippedErr == [kind |-> "analysis skipped due to errors in package", names |-> <<>>]

-----------------------------------------------------------------------------
(* The action graph: runner.analyze and its closure mkAction.               *)

Key(a, pkg) == <<a, pkg>>

InitialPkgs(w) == Range(w.initial)

\* the action struct as mkAction allocates it
NewAction(w, a, pkg, deps) ==
  [ a                   |-> a,
    pkg                 |-> pkg,
    isroot              |-> FALSE,
    isInitialPkg        |-> pkg \in InitialPkgs(w),
    needAnalyzeSource   |-> pkg \in InitialPkgs(w),
    deps                |-> deps,
    objectFacts         |-> {},
    packageFacts        |-> {},
    result              |-> "nil",
    diagnostics         |-> <<>>,
    err                 |-> NoErr,
    analysisDone        |-> FALSE,
    closes              |-> 0,
    loadCachedFactsDone |-> FALSE,
    loadCachedFactsOk   |-> FALSE,
    cacheReads          |-> 0,
    ranAnalyzer         |-> FALSE ]

\* the import paths of pkg, sorted, and the package behind each
SortedImports(w, pkg) ==
  LET paths == SortStrings(SetToSeq({w.path[q] : q \in w.imports[pkg]}))
  IN  [i \in 1..Len(paths) |-> CHOOSE q \in w.imports[pkg] : w.path[q] = paths[i]]

RequiredDeps(w, a, pkg) ==
  [i \in 1..Len(w.requires[a]) |-> Key(w.requires[a][i], pkg)]

ImportDepsAlways(w, a, pkg) ==
  LET imps == SortedImports(w, pkg)
  IN  [i \in 1..Len(imps) |-> Key(a, imps[i])]

\* an analysis that consumes/produces facts must run on the imports too
ImportDeps(w, a, pkg) ==
  IF w.factTypes[a] > 0 THEN ImportDepsAlways(w, a, pkg) ELSE <<>>

\* the keys mkAction(a, pkg) appends to act.deps, in order
DepTargets(w, a, pkg) == RequiredDeps(w, a, pkg) \o ImportDeps(w, a, pkg)

EmptyGraph == [actions |-> <<>>, allocs |-> <<>>, registered |-> <<>>]

\* the lookup finds nothing: every call allocates
NeverRegistered(g, k) == FALSE

\* act, ok := actions[k]
Registered(g, k) == k \in DOMAIN g.actions

RECURSIVE mkAction(_, _, _, _)
RECURSIVE mkActions(_, _, _)

mkAction(w, g, a, pkg) ==
  IF Registered(g, Key(a, pkg)) THEN g
  ELSE LET targets == DepTargets(w, a, pkg)
           g0 == [g EXCEPT !.allocs = Append(@, Key(a, pkg))]
           g1 == mkActions(w, g0, targets)
       IN  [ actions    |-> g1.actions @@ (Key(a, pkg) :> NewAction(w, a, pkg, targets)),
             allocs     |-> g1.allocs,
             registered |-> Append(g1.registered, Key(a, pkg)) ]

mkActions(w, g, targets) ==
  IF targets = <<>> THEN g
  ELSE mkActions(w, mkAction(w, g, Head(targets)[1], Head(targets)[2]), Tail(targets))

\* the roots loop of runner.analyze: for each analyzer, for each package
RootKeys(w) ==
  LET n == Len(w.initial)
  IN  [i \in 1..(Len(w.analyzers) * n) |->
         Key(w.analyzers[((i - 1) \div n) + 1], w.initial[((i - 1) % n) + 1])]

\* runner.analyze up to the call of loadPackagesAndFacts
BuildGraph(w) ==
  LET g == mkActions(w, EmptyGraph, RootKeys(w))
  IN  [ actions    |-> [k \in DOMAIN g.actions |->
                          [g.actions[k] EXCEPT !.isroot = k \in Range(RootKeys(w))]],
        allocs     |-> g.allocs,
        registered |-> g.registered,
        roots      |-> RootKeys(w) ]

-----------------------------------------------------------------------------
(* The diagnostic collector: extractDiagnostics.                            *)

DiagKey(w, act, diag) ==
  [posn |-> Position(w, act.pkg, diag.pos), analyzer |-> act.a, message |-> diag.message]

EmptyExtract == [extracted |-> {}, seen |-> {}, retDiags |-> <<>>,
                 retErrors |-> <<>>, visited |-> <<>>]

\* the loop over act.diagnostics in extract, without the seen map
RECURSIVE emitDiagsNoDedup(_, _, _, _)
emitDiagsNoDedup(w, st, act, diags) ==
  IF diags = <<>> THEN st
  ELSE LET k == DiagKey(w, act, Head(diags))
       IN  emitDiagsNoDedup(w,
             [st EXCEPT !.seen = @ \cup {k},
                        !.retDiags = Append(@, [diag |-> Head(diags), analyzer |-> act.a,
                                                position |-> k.posn])],
             act, Tail(diags))

\* the loop over act.diagnostics in extract
RECURSIVE emitDiags(_, _, _, _)
emitDiags(w, st, act, diags) ==
  IF diags = <<>> THEN st
  ELSE LET k == DiagKey(w, act, Head(diags))
       IN  IF k \in st.seen
           THEN emitDiags(w, st, act, Tail(diags))
           ELSE emitDiags(w,
                  [st EXCEPT !.seen = @ \cup {k},
                             !.retDiags = Append(@, [diag |-> Head(diags), analyzer |-> act.a,
                                                     position |-> k.posn])],
                  act, Tail(diags))

\* extract with the error entry kept for root actions only
extractRootsOnly(w, st, act) ==
  LET st1 == [st EXCEPT !.visited = Append(@, Key(act.a, act.pkg))]
  IN  IF ~act.isroot THEN st1
      ELSE IF act.err # NoErr
      THEN [st1 EXCEPT !.retErrors = Append(@, [prefix |-> act.a, err |-> act.err])]
      ELSE emitDiags(w, st1, act, act.diagnostics)

\* extract without the isroot test
extractEveryAction(w, st, act) ==
  LET st1 == [st EXCEPT !.visited = Append(@, Key(act.a, act.pkg))]
  IN  IF act.err # NoErr
      THEN [st1 EXCEPT !.retErrors = Append(@, [prefix |-> act.a, err |-> act.err])]
      ELSE emitDiags(w, st1, act, act.diagnostics)

\* the closure extract of extractDiagnostics
extract(w, st, act) ==
  LET st1 == [st EXCEPT !.visited = Append(@, Key(act.a, act.pkg))]
  IN  IF act.err # NoErr
      THEN [st1 EXCEPT !.retErrors = Append(@, [prefix |-> act.a, err |-> act.err])]
      ELSE IF act.isroot
      THEN emitDiags(w, st1, act, act.diagnostics)
      ELSE st1

\* the closure visitAll of extractDiagnostics
RECURSIVE visitAll(_, _, _, _)
visitAll(w, st, acts, list) ==
  IF list = <<>> THEN st
  ELSE LET k == Head(list)
       IN  IF k \in st.extracted
           THEN visitAll(w, st, acts, Tail(list))
           ELSE LET st1 == [st EXCEPT !.extracted = @ \cup {k}]
                    st2 == visitAll(w, st1, acts, acts[k].deps)
                    st3 == extract(w, st2, acts[k])
                IN  visitAll(w, st3, acts, Tail(list))

extractDiagnostics(w, rootList, acts) == visitAll(w, EmptyExtract, acts, rootList)

-----------------------------------------------------------------------------
(* Facts.  Every package declares one object of each kind; a fact key is    *)
(* the object (or the package) it is about, with the type universe the      *)
(* object belongs to, since the code compares *types.Package pointers.      *)

\* an exported function, a type name, a method of an unexported type, a local variable
ObjKinds == {"Func", "TypeName", "umethod", "local"}

ObjectFactKey(pkg, univ, kind) == [pkg |-> pkg, univ |-> univ, obj |-> kind]

PackageFactKey(pkg, univ) == [pkg |-> pkg, univ |-> univ]

\* exportedFrom(obj, pkg): may obj be visible to a package that imports pkg
exportedFrom(key, pkg, univ) ==
  CASE key.obj = "Func"     -> key.pkg = pkg /\ key.univ = univ
    [] key.obj = "umethod"  -> TRUE
    [] key.obj = "TypeName" -> TRUE
    [] OTHER                -> FALSE

\* objectpath.For(obj) succeeds: the object is globally addressable
HasObjectPath(kind) == kind \in {"Func", "TypeName", "umethod"}

\* objectpath.Object(pkg.Types, path) succeeds: export data does not hold
\* the methods of unexported types
ResolvesIn(kind, univ) == kind \in {"Func", "TypeName"} \/ (kind = "umethod" /\ univ # "export")

\* inheritFacts(act, dep)
inheritFacts(act, dep, depUniv) ==
  [act EXCEPT !.objectFacts = @ \cup {k \in dep.objectFacts : exportedFrom(k, dep.pkg, depUniv)},
              !.packageFacts = @ \cup dep.packageFacts]

\* the facts list persistFactsToCache hands to pkgCache.Put
\* the facts list without the tests on the package of the key
FactsToPersistUnscoped(act, univ) ==
  {[path |-> "", of |-> k.pkg] : k \in act.packageFacts}
  \cup {[path |-> k.obj, of |-> k.pkg] : k \in {x \in act.objectFacts : HasObjectPath(x.obj)}}

\* the facts list persistFactsToCache builds; of is the package of the key
\* the record was built from, which the Fact struct does not carry
FactsToPersist(act, univ) ==
  {[path |-> "", of |-> k.pkg] :
     k \in {x \in act.packageFacts : x.pkg = act.pkg /\ x.univ = univ}}
  \cup {[path |-> k.obj, of |-> k.pkg] :
           k \in {x \in act.objectFacts : /\ x.pkg = act.pkg /\ x.univ = univ
                                          /\ HasObjectPath(x.obj)}}

CacheMissing == [present |-> FALSE, facts |-> {}]

\* pkgCache.Put(pkg, "<analyzer>/facts", facts)
CachePut(c, k, facts) == [c EXCEPT ![k] = [present |-> TRUE, facts |-> facts]]

\* persistFactsToCache: nothing is written for an analyzer without fact types
persistFactsToCache(w, c, act, univ) ==
  IF w.factTypes[act.a] = 0 THEN c
  ELSE CachePut(c, Key(act.a, act.pkg), FactsToPersist(act, univ))

\* loadPersistedFacts: false when the cache holds no entry; cacheReads
\* counts the calls of pkgCache.Get for the action
loadPersistedFacts(c, act, univ) ==
  LET e == c[Key(act.a, act.pkg)]
  IN  IF ~e.present THEN [ok |-> FALSE, act |-> [act EXCEPT !.cacheReads = @ + 1]]
      ELSE [ok  |-> TRUE,
            act |-> [act EXCEPT
                       !.cacheReads = @ + 1,
                       !.packageFacts = @ \cup {PackageFactKey(act.pkg, univ) :
                                                  f \in {x \in e.facts : x.path = ""}},
                       !.objectFacts = @ \cup {ObjectFactKey(act.pkg, univ, f.path) :
                                                 f \in {x \in e.facts :
                                                          x.path # "" /\ ResolvesIn(x.path, univ)}}]]

\* loadCachedFacts without the test of act.isInitialPkg
loadCachedFactsOfAnyPackage(w, c, act, univ) ==
  IF act.loadCachedFactsDone THEN [ok |-> act.loadCachedFactsOk, act |-> act]
  ELSE LET res == IF w.factTypes[act.a] = 0 THEN [ok |-> TRUE, act |-> act]
                  ELSE loadPersistedFacts(c, act, univ)
       IN  [ok  |-> res.ok,
            act |-> [res.act EXCEPT !.loadCachedFactsDone = TRUE,
                                    !.loadCachedFactsOk = res.ok]]

\* loadCachedFacts
loadCachedFacts(w, c, act, univ) ==
  IF act.loadCachedFactsDone THEN [ok |-> act.loadCachedFactsOk, act |-> act]
  ELSE LET res == IF act.isInitialPkg THEN [ok |-> TRUE, act |-> act]
                  ELSE IF w.factTypes[act.a] = 0 THEN [ok |-> TRUE, act |-> act]
                  ELSE loadPersistedFacts(c, act, univ)
       IN  [ok  |-> res.ok,
            act |-> [res.act EXCEPT !.loadCachedFactsDone = TRUE,
                                    !.loadCachedFactsOk = res.ok]]

-----------------------------------------------------------------------------
(* The package loader: loadingPackage and runner.loadPackagesAndFacts.      *)

UnsafePath == <<117, 110, 115, 97, 102, 101>>

ParseErr == [kind |-> "parse error", names |-> <<>>]

TypeErr == [kind |-> "type error", names |-> <<>>]

ExportErr == [kind |-> "could not load export data", names |-> <<>>]

NotLoadedErr == [kind |-> "dependency hasn't been loaded yet", names |-> <<>>]

\* a packages.Package as the driver receives it
NewPackage == [types |-> "nil", illTyped |-> FALSE, typesInfo |-> FALSE, hasErrors |-> FALSE]

\* a packages.Package another linter already type-checked
PreloadedPackage(pre) ==
  [types |-> "pre", illTyped |-> pre = "illtyped", typesInfo |-> TRUE, hasErrors |-> FALSE]

\* the closure dfs of loadPackagesAndFacts: the packages that get a loadingPackage
RECURSIVE dfs(_, _, _)
dfs(w, loading, todo) ==
  IF todo = {} THEN loading
  ELSE LET pkg == CHOOSE x \in todo : TRUE
       IN  IF pkg \in loading THEN dfs(w, loading, todo \ {pkg})
           ELSE dfs(w, loading \cup {pkg}, (todo \ {pkg}) \cup w.imports[pkg])

\* expErr: the error of loadFromExportData, kept while the sources are
\* loaded for their compile errors; raced: the type check overlapped a
\* decode that may write to a package it imports
NewLoadingPackage ==
  [pc |-> "wait", doneCh |-> FALSE, wasLoaded |-> FALSE, err |-> NoErr,
   expErr |-> NoErr, raced |-> FALSE]

\* lp.actions: all actions with this package
ActionsOf(acts, pkg) == {k \in DOMAIN acts : acts[k].pkg = pkg}

\* loadFromSource: parse, then type-check against the imports
loadFromSource(w, P, pkg, src) ==
  LET p1 == [P[pkg] EXCEPT !.types = "source", !.illTyped = TRUE]
  IN  IF src = "bad"
      THEN [pkg |-> [p1 EXCEPT !.hasErrors = TRUE], err |-> ParseErr]
      ELSE IF \E imp \in w.imports[pkg] : P[imp].hasErrors
      THEN [pkg |-> [p1 EXCEPT !.typesInfo = TRUE, !.hasErrors = TRUE], err |-> TypeErr]
      ELSE [pkg |-> [p1 EXCEPT !.typesInfo = TRUE, !.illTyped = FALSE], err |-> NoErr]

\* loadFromExportData, under the export-data mutex
loadFromExportData(w, P, pkg, exp) ==
  LET p1 == [P[pkg] EXCEPT !.types = "empty", !.illTyped = TRUE]
  IN  IF \E imp \in w.imports[pkg] : P[imp].types = "nil"
      THEN [pkg |-> p1, err |-> NotLoadedErr]
      ELSE IF exp = "bad"
      THEN [pkg |-> p1, err |-> ExportErr]
      ELSE [pkg |-> [p1 EXCEPT !.types = "export", !.illTyped = FALSE], err |-> NoErr]

\* no dependency is marked
markNoDeps(acts, k) == acts

\* the dependencies on other packages are marked too
markEveryDep(acts, k) ==
  [d \in DOMAIN acts |->
     IF d \in Range(acts[k].deps)
     THEN [acts[d] EXCEPT !.needAnalyzeSource = TRUE] ELSE acts[d]]

\* the closure markDepsForAnalyzingSource of loadWithFacts
markDepsForAnalyzingSource(acts, k) ==
  [d \in DOMAIN acts |->
     IF d \in Range(acts[k].deps) /\ acts[d].pkg = acts[k].pkg
     THEN [acts[d] EXCEPT !.needAnalyzeSource = TRUE] ELSE acts[d]]

\* the loop of loadWithFacts over lp.actions: try the cached facts of each
RECURSIVE inspectActions(_, _, _, _, _, _)
inspectActions(w, c, acts, univ, order, need) ==
  IF order = <<>> THEN [acts |-> acts, needLoadFromSource |-> need]
  ELSE LET k  == Head(order)
           r  == loadCachedFacts(w, c, acts[k], univ)
           a1 == [acts EXCEPT ![k] = r.act]
       IN  IF r.ok THEN inspectActions(w, c, a1, univ, Tail(order), need)
           ELSE inspectActions(w, c,
                  markDepsForAnalyzingSource(
                    [a1 EXCEPT ![k].needAnalyzeSource = TRUE], k),
                  univ, Tail(order), TRUE)

-----------------------------------------------------------------------------
(* The action executor: action.analyze and runner.runActionsAnalysis.       *)

\* the dependencies with an error, by name, in the order of act.deps
RECURSIVE failedDeps(_, _, _)
failedDeps(w, acts, deps) ==
  IF deps = <<>> THEN <<>>
  ELSE (IF acts[Head(deps)].err # NoErr THEN <<String(w, Head(deps))>> ELSE <<>>)
       \o failedDeps(w, acts, Tail(deps))

FailedPrerequisitesUnsorted(w, acts, k) ==
  [kind |-> "failed prerequisites", names |-> UnsortedStrings(failedDeps(w, acts, acts[k].deps))]

\* the error analyze reports when a dependency failed
FailedPrerequisites(w, acts, k) ==
  [kind |-> "failed prerequisites", names |-> SortStrings(failedDeps(w, acts, acts[k].deps))]

\* only the first dependency is awaited
AwaitedDepsFirstOnly(act) == IF act.deps = <<>> THEN {} ELSE {Head(act.deps)}

\* no dependency is awaited
AwaitedDepsNone(act) == {}

\* the dependencies whose analysisDoneCh analyze receives from
AwaitedDeps(act) == Range(act.deps)

\* close(act.analysisDoneCh) written as the last statement of analyze
closeAtEnd(act, panicked) ==
  [act EXCEPT !.analysisDone = ~panicked,
              !.closes = IF panicked THEN @ ELSE @ + 1]

\* a second close(act.analysisDoneCh) next to the deferred one
closeTwice(act, panicked) ==
  [act EXCEPT !.analysisDone = TRUE, !.closes = @ + 2]

\* defer close(act.analysisDoneCh): runs on every return and on a panic
deferredClose(act, panicked) ==
  [act EXCEPT !.analysisDone = TRUE, !.closes = @ + 1]

\* the inputs map: the results of the horizontal dependencies
Inputs(acts, k) ==
  {acts[d].result : d \in {x \in Range(acts[k].deps) : acts[x].pkg = acts[k].pkg}}

\* the facts of the vertical dependencies, inherited in the order of act.deps
RECURSIVE inheritAll(_, _, _, _)
inheritAll(acts, P, act, deps) ==
  IF deps = <<>> THEN act
  ELSE LET dep == acts[Head(deps)]
       IN  IF dep.pkg = act.pkg THEN inheritAll(acts, P, act, Tail(deps))
           ELSE IF dep.a = act.a
           THEN inheritAll(acts, P, inheritFacts(act, dep, P[dep.pkg].types), Tail(deps))
           ELSE inheritAll(acts, P, act, Tail(deps))

\* the packages a fact-reading analyzer sees a package fact of, by path
VisibleFactPkgs(w, act) ==
  LET seenPkgs == {k.pkg : k \in act.packageFacts} \ {act.pkg}
      paths    == SortStrings(SetToSeq({w.path[q] : q \in seenPkgs}))
  IN  [i \in 1..Len(paths) |-> CHOOSE q \in seenPkgs : w.path[q] = paths[i]]

\* Analyzer.Run, a deterministic function of its Pass: it reports one
\* diagnostic of its own and, when it declares a fact type, one for every
\* package fact of another package it can import; it exports a fact for the
\* package and for each of its objects.
AnalyzerRun(w, act, univ) ==
  LET facts == w.factTypes[act.a] > 0
      seen  == IF facts THEN VisibleFactPkgs(w, act) ELSE <<>>
      pos   == w.base[act.pkg] + 1
  IN  [act EXCEPT
         !.diagnostics  = @ \o <<[pos |-> pos, message |-> "found"]>>
                            \o [i \in 1..Len(seen) |-> [pos |-> pos, message |-> seen[i]]],
         !.packageFacts = IF facts THEN @ \cup {PackageFactKey(act.pkg, univ)} ELSE @,
         !.objectFacts  = IF facts
                          THEN @ \cup {ObjectFactKey(act.pkg, univ, o) : o \in ObjKinds}
                          ELSE @]

\* the outcomes Run can have on this Pass: an analyzer handed the unset
\* result of a required analyzer dereferences it and panics
PossibleOutcomes(w, e, acts, k) ==
  IF "nil" \in Inputs(acts, k) THEN {"panic"}
  ELSE IF e.run[k] = "?" THEN w.outcomes[k] ELSE {e.run[k]}

\* analyze from "Plumb the output values" to the end, for a Run that returns
runAndPersist(w, c, acts, P, k, outcome) ==
  LET univ == P[acts[k].pkg].types
      a0   == deferredClose(inheritAll(acts, P, acts[k], acts[k].deps), FALSE)
      a1   == IF P[acts[k].pkg].illTyped /\ ~w.runDespiteErrors[acts[k].a]
              THEN [a0 EXCEPT !.err = SkippedErr]
              ELSE [AnalyzerRun(w, a0, univ) EXCEPT
                      !.ranAnalyzer = TRUE,
                      !.result = IF outcome = "ok" THEN "res" ELSE "nil",
                      !.err = IF outcome = "ok" THEN NoErr ELSE RunErr]
  IN  [act |-> a1, cache |-> persistFactsToCache(w, c, a1, univ)]

-----------------------------------------------------------------------------
(* The state machine.                                                       *)

Keys(w) == DOMAIN w.outcomes

\* no call of NeedFacts
NoNeedFacts == [q |-> <<>>, seen |-> {}, ret |-> "?"]

NoRet == [status |-> "none", diags |-> <<>>, errs |-> <<>>, visited |-> <<>>]

EnvUnknown(w) ==
  [ pre |-> [x \in w.pkgs |-> "?"],
    exp |-> [x \in w.pkgs |-> "?"],
    src |-> [x \in w.pkgs |-> "?"],
    run |-> [k \in Keys(w) |-> "?"] ]

EmptyCache(w) == [k \in Keys(w) |-> CacheMissing]

\* what an input can be, given what the run already saw of it
Known(memo, options) == IF memo = "?" THEN options ELSE {memo}

Init ==
  /\ world = "main"
  /\ input = MainWorld
  /\ nf = NoNeedFacts
  /\ run = 0
  /\ phase = "start"
  /\ actions = <<>>
  /\ roots = <<>>
  /\ allocs = <<>>
  /\ pkgs = [x \in MainWorld.pkgs |-> NewPackage]
  /\ lp = [x \in MainWorld.pkgs |-> NewLoadingPackage]
  /\ loadSem = 0
  /\ exportMu = "free"
  /\ errCh = <<>>
  /\ apc = <<>>
  /\ panicsCh = <<>>
  /\ cache = EmptyCache(MainWorld)
  /\ trims = 0
  /\ env = EnvUnknown(MainWorld)
  /\ ret = NoRet
  /\ prev = [ret |-> NoRet, cache0 |-> EmptyCache(MainWorld), cache1 |-> EmptyCache(MainWorld)]

\* runner.run is called: runner.analyze builds the graph, and
\* loadPackagesAndFacts starts one task per loadingPackage
RunStart ==
  /\ \/ phase = "start"
     \/ phase = "returned" /\ world = "main" /\ run < MaxRuns
  /\ LET g == BuildGraph(W)
     IN  /\ actions' = g.actions
         /\ roots' = g.roots
         /\ allocs' = g.allocs
         /\ lp' = [x \in dfs(W, {}, {k[2] : k \in DOMAIN g.actions}) |-> NewLoadingPackage]
         /\ apc' = [k \in DOMAIN g.actions |-> "idle"]
  /\ pkgs' = [x \in W.pkgs |-> NewPackage]
  /\ run' = run + 1
  /\ phase' = "load"
  /\ loadSem' = 0
  /\ exportMu' = "free"
  /\ errCh' = <<>>
  /\ panicsCh' = <<>>
  /\ ret' = NoRet
  /\ prev' = [ret |-> ret, cache0 |-> prev.cache1, cache1 |-> cache]
  /\ UNCHANGED <<world, input, nf, cache, trims, env>>

\* the imports are not waited for
importsNotAwaited(w, L, x) == TRUE

\* lp.waitUntilImportsLoaded returns: <-imp.doneCh for every import
waitUntilImportsLoaded(w, L, x) == \A imp \in w.imports[x] : L[imp].doneCh

LpWait(x) ==
  /\ phase = "load"
  /\ lp[x].pc = "wait"
  /\ waitUntilImportsLoaded(W, lp, x)
  /\ lp' = [lp EXCEPT ![x].pc = "acquire"]
  /\ UNCHANGED <<world, input, nf, run, phase, actions, roots, allocs, pkgs, loadSem,
                 exportMu, errCh, apc, panicsCh, cache, trims, env, ret, prev>>

\* a permit is handed out whatever the number taken
PermitAlwaysAvailable(n) == TRUE

\* a send on loadSem returns: the channel buffer is not full
PermitAvailable(n) == n < LoadSemCap

\* loadSem <- struct{}{}
LpAcquire(x) ==
  /\ phase = "load"
  /\ lp[x].pc = "acquire"
  /\ PermitAvailable(loadSem)
  /\ loadSem' = loadSem + 1
  /\ lp' = [lp EXCEPT ![x].pc = "load"]
  /\ UNCHANGED <<world, input, nf, run, phase, actions, roots, allocs, pkgs, exportMu,
                 errCh, apc, panicsCh, cache, trims, env, ret, prev>>

\* the packages reachable from x through imports
RECURSIVE TransImports(_, _)
TransImports(w, set) ==
  LET more == set \cup UNION {w.imports[y] : y \in set}
  IN  IF more = set THEN set ELSE TransImports(w, more)

\* the view of gcexportdata.Read for x: the packages whose types.Package the
\* decoder may create or modify
DecodeView(w, x) == TransImports(w, w.imports[x])

\* the packages whose types.Package the type check of x reads through its
\* importer
CheckReads(w, x) == w.imports[x]

\* lp.loadWithFacts up to the choice of a way to load: the unsafe package and
\* an already loaded package are done here
LpLoad(x) ==
  /\ phase = "load"
  /\ lp[x].pc = "load"
  /\ IF W.path[x] = UnsafePath
     THEN /\ pkgs' = [pkgs EXCEPT ![x] = [@ EXCEPT !.types = "unsafe", !.typesInfo = TRUE]]
          /\ lp' = [lp EXCEPT ![x].pc = "close"]
          /\ UNCHANGED <<actions, env>>
     ELSE \E pre \in Known(env.pre[x], W.pre[x]) :
            /\ env' = [env EXCEPT !.pre[x] = pre]
            /\ IF pre # "none"
               THEN LET p0 == PreloadedPackage(pre)
                        r  == inspectActions(W, cache, actions, p0.types,
                                             SetToSeq(ActionsOf(actions, x)), FALSE)
                    IN  /\ actions' = IF lp[x].wasLoaded THEN actions ELSE r.acts
                        /\ pkgs' = [pkgs EXCEPT ![x] = p0]
                        /\ lp' = [lp EXCEPT ![x].pc = "close"]
               ELSE /\ lp' = [lp EXCEPT ![x].pc = IF x \in InitialPkgs(W)
                                                  THEN "source" ELSE "lock"]
                    /\ UNCHANGED <<actions, pkgs>>
  /\ UNCHANGED <<world, input, nf, run, phase, roots, allocs, loadSem, exportMu, errCh,
                 apc, panicsCh, cache, trims, ret, prev>>

\* the mutex is taken whoever holds it
MutexIgnored(mu) == TRUE

\* mu.Lock() returns
MutexFree(mu) == mu = "free"

\* lp.loadFromExportData: mu.Lock()
LpLock(x) ==
  /\ phase = "load"
  /\ lp[x].pc = "lock"
  /\ MutexFree(exportMu)
  /\ exportMu' = x
  /\ lp' = [y \in DOMAIN lp |->
              IF y = x THEN [lp[y] EXCEPT !.pc = "decode"]
              ELSE IF lp[y].pc = "check" /\ DecodeView(W, x) \cap CheckReads(W, y) # {}
              THEN [lp[y] EXCEPT !.raced = TRUE]
              ELSE lp[y]]
  /\ UNCHANGED <<world, input, nf, run, phase, actions, roots, allocs, pkgs, loadSem,
                 errCh, apc, panicsCh, cache, trims, env, ret, prev>>

\* lp.loadFromExportData after mu.Lock(), with its deferred mu.Unlock(); then,
\* back in loadWithFacts, the cached facts of the actions of the package
LpDecode(x) ==
  /\ phase = "load"
  /\ lp[x].pc = "decode"
  /\ \E exp \in Known(env.exp[x], W.exp[x]) :
       LET e == loadFromExportData(W, pkgs, x, exp)
           r == inspectActions(W, cache, actions, e.pkg.types,
                               SetToSeq(ActionsOf(actions, x)), FALSE)
       IN  /\ env' = IF e.err = NotLoadedErr THEN env ELSE [env EXCEPT !.exp[x] = exp]
           /\ pkgs' = [pkgs EXCEPT ![x] = e.pkg]
           /\ IF e.err # NoErr
              THEN /\ lp' = [lp EXCEPT ![x].pc = "source", ![x].expErr = e.err]
                   /\ actions' = actions
              ELSE /\ lp' = [lp EXCEPT ![x].pc = IF r.needLoadFromSource
                                                 THEN "source" ELSE "close"]
                   /\ actions' = r.acts
  /\ exportMu' = "free"
  /\ UNCHANGED <<world, input, nf, run, phase, roots, allocs, loadSem, errCh,
                 apc, panicsCh, cache, trims, ret, prev>>

\* the error of the export data is returned even when the source load fails
exportErrorFirst(srcErr, expErr) == IF expErr # NoErr THEN expErr ELSE srcErr

\* the error loadWithFacts returns after loadFromSource: the error of the
\* source load if it failed, else the error of the export data, if any
returnedError(srcErr, expErr) == IF srcErr # NoErr THEN srcErr ELSE expErr

\* lp.loadFromSource up to the type check: the new types.Package, the parse
LpSource(x) ==
  /\ phase = "load"
  /\ lp[x].pc = "source"
  /\ \E src \in Known(env.src[x], W.src[x]) :
       /\ env' = [env EXCEPT !.src[x] = src]
       /\ IF src = "bad"
          THEN LET s == loadFromSource(W, pkgs, x, src)
               IN  /\ pkgs' = [pkgs EXCEPT ![x] = s.pkg]
                   /\ lp' = [lp EXCEPT ![x].pc = "close",
                                       ![x].err = returnedError(s.err, lp[x].expErr)]
          ELSE /\ pkgs' = [pkgs EXCEPT ![x] = [@ EXCEPT !.types = "source", !.illTyped = TRUE,
                                                        !.typesInfo = TRUE]]
               /\ lp' = [lp EXCEPT
                           ![x].pc = "check",
                           ![x].raced = \E y \in DOMAIN lp :
                                           /\ lp[y].pc = "decode"
                                           /\ DecodeView(W, y) \cap CheckReads(W, x) # {}]
  /\ UNCHANGED <<world, input, nf, run, phase, actions, roots, allocs, loadSem, exportMu,
                 errCh, apc, panicsCh, cache, trims, ret, prev>>

\* what the type check can make of the package: read while a decode may
\* write to a package it imports, it may also fail
CheckOutcomes(w, P, x, raced) ==
  {loadFromSource(w, P, x, "ok")}
  \cup (IF raced
        THEN {[pkg |-> [P[x] EXCEPT !.types = "source", !.illTyped = TRUE,
                                    !.typesInfo = TRUE, !.hasErrors = TRUE],
               err |-> TypeErr]}
        ELSE {})

\* lp.loadFromSource: the type check against the imports; then, back in
\* loadWithFacts, the error to return
LpCheck(x) ==
  /\ phase = "load"
  /\ lp[x].pc = "check"
  /\ \E s \in CheckOutcomes(W, pkgs, x, lp[x].raced) :
       /\ pkgs' = [pkgs EXCEPT ![x] = IF s.err = NoErr /\ lp[x].expErr # NoErr
                                      THEN [s.pkg EXCEPT !.hasErrors = TRUE]
                                      ELSE s.pkg]
       /\ lp' = [lp EXCEPT ![x].pc = "close",
                           ![x].err = returnedError(s.err, lp[x].expErr)]
  /\ UNCHANGED <<world, input, nf, run, phase, actions, roots, allocs, loadSem, exportMu,
                 errCh, apc, panicsCh, cache, trims, env, ret, prev>>

\* the deferred calls of loadWithFacts: lp.wasLoaded = true, close(lp.doneCh)
LpClose(x) ==
  /\ phase = "load"
  /\ lp[x].pc = "close"
  /\ lp' = [lp EXCEPT ![x].pc = IF lp[x].err # NoErr THEN "send" ELSE "release",
                      ![x].doneCh = TRUE,
                      ![x].wasLoaded = TRUE]
  /\ UNCHANGED <<world, input, nf, run, phase, actions, roots, allocs, pkgs, loadSem,
                 exportMu, errCh, apc, panicsCh, cache, trims, env, ret, prev>>

\* errCh made without a buffer
errChUnbuffered(L) == 0

\* the capacity of errCh: make(chan error, len(loadingPackages))
errChCap(L) == Cardinality(DOMAIN L)

\* errCh <- errors.Wrapf(err, "failed to load package %s", lp.pkg.Name);
\* nothing receives from errCh before wg.Wait() has returned
LpSend(x) ==
  /\ phase = "load"
  /\ lp[x].pc = "send"
  /\ Len(errCh) < errChCap(lp)
  /\ errCh' = Append(errCh, [kind |-> lp[x].err.kind, names |-> <<W.path[x]>>])
  /\ lp' = [lp EXCEPT ![x].pc = "release"]
  /\ UNCHANGED <<world, input, nf, run, phase, actions, roots, allocs, pkgs, loadSem, exportMu,
                 apc, panicsCh, cache, trims, env, ret, prev>>

\* <-loadSem, then the deferred wg.Done()
LpRelease(x) ==
  /\ phase = "load"
  /\ lp[x].pc = "release"
  /\ loadSem' = loadSem - 1
  /\ lp' = [lp EXCEPT ![x].pc = "finished"]
  /\ UNCHANGED <<world, exportMu, input, nf, run, phase, actions, roots, allocs, pkgs, errCh,
                 apc, panicsCh, cache, trims, env, ret, prev>>

\* the errors sent on errCh are never read
loadResultIgnored(ch) == NoErr

\* close(errCh); for err := range errCh { return err }; return nil
loadResult(ch) == IF ch # <<>> THEN Head(ch) ELSE NoErr

\* wg.Wait() of loadPackagesAndFacts returns: the first error on errCh, if
\* any, ends runner.run; otherwise runActionsAnalysis starts the action tasks
LoadJoin ==
  /\ phase = "load"
  /\ \A x \in DOMAIN lp : lp[x].pc = "finished"
  /\ IF loadResult(errCh) # NoErr
     THEN /\ ret' = [status |-> "returned", diags |-> <<>>, visited |-> <<>>,
                     errs |-> <<[prefix |-> "failed to load packages",
                                 err |-> loadResult(errCh)]>>]
          /\ trims' = trims + 1
          /\ phase' = "returned"
          /\ apc' = apc
     ELSE /\ phase' = "exec"
          /\ apc' = [k \in DOMAIN actions |-> "start"]
          /\ UNCHANGED <<ret, trims>>
  /\ UNCHANGED <<world, input, nf, run, actions, roots, allocs, pkgs, lp, loadSem, exportMu, errCh,
                 panicsCh, cache, env, prev>>

\* act.analyze of an action that does not need source analysis
ActSkip(k) ==
  /\ phase = "exec"
  /\ apc[k] = "start"
  /\ ~actions[k].needAnalyzeSource
  /\ actions' = [actions EXCEPT ![k] = deferredClose(@, FALSE)]
  /\ apc' = [apc EXCEPT ![k] = "finished"]
  /\ UNCHANGED <<world, input, nf, run, phase, roots, allocs, pkgs, lp, loadSem, exportMu, errCh,
                 panicsCh, cache, trims, env, ret, prev>>

\* act.analyze up to the prerequisites check: the receives from the
\* dependencies' analysisDoneCh, then the failed list
ActAwaitDeps(k) ==
  /\ phase = "exec"
  /\ apc[k] = "start"
  /\ actions[k].needAnalyzeSource
  /\ \A d \in AwaitedDeps(actions[k]) : actions[d].analysisDone
  /\ IF failedDeps(W, actions, actions[k].deps) # <<>>
     THEN /\ actions' = [actions EXCEPT
                           ![k] = deferredClose(
                                    [@ EXCEPT !.err = FailedPrerequisites(W, actions, k)], FALSE)]
          /\ apc' = [apc EXCEPT ![k] = "finished"]
     ELSE /\ apc' = [apc EXCEPT ![k] = "run"]
          /\ actions' = actions
  /\ UNCHANGED <<world, input, nf, run, phase, roots, allocs, pkgs, lp, loadSem, exportMu, errCh,
                 panicsCh, cache, trims, env, ret, prev>>

\* act.analyze from the inputs to the end: inherit the facts, run the
\* analyzer unless the package is ill-typed, persist the facts; the deferred
\* close(act.analysisDoneCh); a panic is recovered and sent on panicsCh
ActRun(k) ==
  /\ phase = "exec"
  /\ apc[k] = "run"
  /\ LET gated == pkgs[actions[k].pkg].illTyped /\ ~W.runDespiteErrors[actions[k].a]
         fixed == gated \/ "nil" \in Inputs(actions, k)
     IN  \E outcome \in IF gated THEN {"ok"} ELSE PossibleOutcomes(W, env, actions, k) :
           /\ env' = IF fixed THEN env ELSE [env EXCEPT !.run[k] = outcome]
           /\ IF outcome = "panic"
              THEN /\ actions' = [actions EXCEPT
                                    ![k] = deferredClose(
                                             [inheritAll(actions, pkgs, actions[k], actions[k].deps)
                                                EXCEPT !.ranAnalyzer = TRUE], TRUE)]
                   /\ panicsCh' = Append(panicsCh, k)
                   /\ cache' = cache
              ELSE LET r == runAndPersist(W, cache, actions, pkgs, k, outcome)
                   IN  /\ actions' = [actions EXCEPT ![k] = r.act]
                       /\ cache' = r.cache
                       /\ panicsCh' = panicsCh
  /\ apc' = [apc EXCEPT ![k] = "finished"]
  /\ UNCHANGED <<world, input, nf, run, phase, roots, allocs, pkgs, lp, loadSem, exportMu, errCh,
                 trims, ret, prev>>

\* the executor goes on as soon as one panic is recorded
PanicRecordedOrTasksEnded(pc, ch) == ch # <<>> \/ \A k \in DOMAIN pc : pc[k] = "finished"

\* wg.Wait() of runActionsAnalysis: every action task called wg.Done
TasksEnded(pc, ch) == \A k \in DOMAIN pc : pc[k] = "finished"

\* wg.Wait() of runActionsAnalysis returns: a recorded panic is raised again
\* (the deferred Trim of runner.run still runs)
ExecJoin ==
  /\ phase = "exec"
  /\ TasksEnded(apc, panicsCh)
  /\ IF panicsCh # <<>>
     THEN /\ ret' = [status |-> "panicked", diags |-> <<>>, errs |-> <<>>, visited |-> <<>>]
          /\ trims' = trims + 1
          /\ phase' = "returned"
     ELSE /\ phase' = "extract"
          /\ UNCHANGED <<ret, trims>>
  /\ UNCHANGED <<world, input, nf, run, actions, roots, allocs, pkgs, lp, loadSem, exportMu, errCh,
                 apc, panicsCh, cache, env, prev>>

\* return extractDiagnostics(roots), then the deferred r.pkgCache.Trim()
Collect ==
  /\ phase = "extract"
  /\ LET st == extractDiagnostics(W, roots, actions)
     IN  ret' = [status |-> "returned", diags |-> st.retDiags, errs |-> st.retErrors,
                 visited |-> st.visited]
  /\ trims' = trims + 1
  /\ phase' = "returned"
  /\ UNCHANGED <<world, input, nf, run, actions, roots, allocs, pkgs, lp, loadSem, exportMu, errCh,
                 apc, panicsCh, cache, env, prev>>

Next ==
  \/ RunStart
  \/ \E x \in DOMAIN lp : LpWait(x) \/ LpAcquire(x) \/ LpLoad(x)
  \/ \E x \in DOMAIN lp : LpLock(x) \/ LpDecode(x) \/ LpSource(x) \/ LpCheck(x)
  \/ \E x \in DOMAIN lp : LpClose(x) \/ LpSend(x) \/ LpRelease(x)
  \/ LoadJoin
  \/ \E k \in DOMAIN apc : ActSkip(k) \/ ActAwaitDeps(k) \/ ActRun(k)
  \/ ExecJoin
  \/ Collect

Spec == Init /\ [][Next]_vars

\* what persistFactsToCache leaves for an analyzer with fact types that ran
PersistedFacts(pkg) ==
  {[path |-> "", of |-> pkg]}
  \cup {[path |-> o, of |-> pkg] : o \in {x \in ObjKinds : HasObjectPath(x)}}

\* the caches earlier runs can have left behind
WarmCaches(w) ==
  {c \in [Keys(w) -> {CacheMissing} \cup
                        {[present |-> TRUE, facts |-> PersistedFacts(x)] : x \in w.pkgs}] :
     \A k \in Keys(w) :
       /\ w.factTypes[k[1]] = 0 => c[k] = CacheMissing
       /\ c[k].present => c[k].facts = PersistedFacts(k[2])}

\* the packages that import nothing
LeafPkgs(w) == {x \in w.pkgs : w.imports[x] = {}}

\* the last run of a session, started from any cache the earlier ones left;
\* every source file parses and only a leaf package may arrive type-checked,
\* so that the load succeeds and the executor starts
InitLive ==
  /\ world = "main"
  /\ input = MainWorld
  /\ nf = NoNeedFacts
  /\ run = MaxRuns - 1
  /\ phase = "start"
  /\ actions = <<>>
  /\ roots = <<>>
  /\ allocs = <<>>
  /\ pkgs = [x \in MainWorld.pkgs |-> NewPackage]
  /\ lp = [x \in MainWorld.pkgs |-> NewLoadingPackage]
  /\ loadSem = 0
  /\ exportMu = "free"
  /\ errCh = <<>>
  /\ apc = <<>>
  /\ panicsCh = <<>>
  /\ cache \in WarmCaches(MainWorld)
  /\ trims = 0
  /\ env \in {e \in [pre : [MainWorld.pkgs -> {"?", "none"}],
                      exp : {EnvUnknown(MainWorld).exp},
                      src : {[x \in MainWorld.pkgs |-> "ok"]},
                      run : {EnvUnknown(MainWorld).run}] :
                \A x \in MainWorld.pkgs : e.pre[x] = "?" <=> x \in LeafPkgs(MainWorld)}
  /\ ret = NoRet
  /\ prev = [ret |-> NoRet, cache0 |-> cache, cache1 |-> cache]

\* one step of runActionsAnalysis: of an action's task, or of the join
ExecStep ==
  \/ \E k \in DOMAIN apc : ActSkip(k) \/ ActAwaitDeps(k) \/ ActRun(k)
  \/ ExecJoin

\* the action tasks are goroutines: while one of them can take a step, one
\* of them eventually does
LiveSpec == InitLive /\ [][Next]_vars /\ WF_vars(ExecStep)

-----------------------------------------------------------------------------
(* Properties of a whole run, checked under Spec.                           *)

Deps(k) == Range(actions[k].deps)

\* the dependencies of k whose error is set
FailedSet(k) == {d \in Deps(k) : actions[d].err # NoErr}

IsSorted(names) == \A i \in 1..(Len(names) - 1) : StrLess(names[i], names[i + 1])

\* the ill-typed test of analyze skips the analyzer of k
Gated(k) == pkgs[actions[k].pkg].illTyped /\ ~W.runDespiteErrors[actions[k].a]

\* C1: the analyzer of an action runs, and the results, errors and facts of
\* its dependencies are read, only after the completion signal of each of
\* its dependencies has fired.
C1_RunAfterDependencies ==
  \A k \in DOMAIN actions :
    (apc[k] = "run" \/ actions[k].ranAnalyzer) =>
      \A d \in Deps(k) : actions[d].analysisDone

\* C1 witness: the analyzer of an action with two dependencies has run while
\* another action task has not finished yet.
C1_Witness ==
  /\ phase = "exec"
  /\ \E k \in DOMAIN actions : actions[k].ranAnalyzer /\ Len(actions[k].deps) >= 2
  /\ \E k \in DOMAIN actions : ~actions[k].analysisDone

\* C2 as claimed: the completion signal of every action, also of one that
\* does not need source analysis, fires after those of all its dependencies.
C2_EveryActionAfterDependencies ==
  \A k \in DOMAIN actions :
    actions[k].analysisDone => \A d \in Deps(k) : actions[d].analysisDone

\* C2 as amended: the completion signal of every action that needs source
\* analysis fires after the completion signals of all its dependencies.
C2_SourceActionAfterDependencies ==
  \A k \in DOMAIN actions :
    (actions[k].needAnalyzeSource /\ actions[k].analysisDone) =>
      \A d \in Deps(k) : actions[d].analysisDone

\* C2 witness: an action that needs source analysis fired its signal without
\* running its analyzer (a prerequisite failed), after its dependencies.
C2_Witness ==
  \E k \in DOMAIN actions :
    /\ actions[k].needAnalyzeSource /\ actions[k].analysisDone
    /\ ~actions[k].ranAnalyzer
    /\ Len(actions[k].deps) >= 2
    /\ \E j \in DOMAIN actions : ~actions[j].analysisDone

BothReturned == run >= 2 /\ phase = "returned" /\ ret.status = "returned"
                /\ prev.ret.status = "returned"

\* C3: a second run on the same inputs, starting from the facts cache the
\* first run left, returns the diagnostics of the first run.
C3_SecondRunSameDiagnostics ==
  BothReturned => ret.diags = prev.ret.diags

\* C4: two runs on the same inputs and the same cache contents return the
\* same diagnostics and the same errors, whatever the interleaving of their
\* tasks.
C4_SameResultInEveryInterleaving ==
  (BothReturned /\ prev.cache0 = prev.cache1) =>
    (ret.diags = prev.ret.diags /\ ret.errs = prev.ret.errs)

\* C8: an action that needs source analysis and has a dependency with an
\* error ends with the error "failed prerequisites" naming exactly those
\* dependencies, sorted, without running its analyzer, recording a
\* diagnostic or writing to the cache; without such a dependency it goes on
\* to the run-gating step.
C8_FailedPrerequisites ==
  \A k \in DOMAIN actions :
    (apc[k] = "finished" /\ actions[k].needAnalyzeSource) =>
      IF FailedSet(k) # {}
      THEN /\ actions[k].err.kind = "failed prerequisites"
           /\ Range(actions[k].err.names) = {String(W, d) : d \in FailedSet(k)}
           /\ Len(actions[k].err.names) = Cardinality(FailedSet(k))
           /\ IsSorted(actions[k].err.names)
           /\ ~actions[k].ranAnalyzer
           /\ actions[k].diagnostics = <<>>
           /\ cache[k] = prev.cache1[k]
      ELSE /\ actions[k].err.kind # "failed prerequisites"
           /\ actions[k].ranAnalyzer \/ (Gated(k) /\ actions[k].err = SkippedErr)

\* C8 witness: an action ended with two failed prerequisites that its deps
\* list holds in another order than the sorted one.
C8_Witness ==
  \E k \in DOMAIN actions :
    /\ apc[k] = "finished" /\ actions[k].needAnalyzeSource
    /\ Cardinality(FailedSet(k)) >= 2
    /\ failedDeps(W, actions, actions[k].deps) # actions[k].err.names

LoadFailed == \E x \in DOMAIN lp : lp[x].err # NoErr

\* C9: when a package-load task returned an error, the run returns, after
\* every load task finished, no diagnostics and exactly one error, which is
\* one of the load errors; no analyzer is executed; the cache is trimmed.
C9_LoadFailureAbortsRun ==
  LoadFailed =>
    /\ phase \in {"load", "returned"}
    /\ \A k \in DOMAIN actions : ~actions[k].ranAnalyzer /\ apc[k] = "idle"
    /\ phase = "returned" =>
         /\ \A x \in DOMAIN lp : lp[x].pc = "finished"
         /\ ret.status = "returned"
         /\ ret.diags = <<>>
         /\ Len(ret.errs) = 1
         /\ ret.errs[1].prefix = "failed to load packages"
         /\ \E x \in DOMAIN lp :
              /\ lp[x].err # NoErr
              /\ ret.errs[1].err = [kind |-> lp[x].err.kind, names |-> <<W.path[x]>>]
         /\ trims = run

\* C9 witness: the run returned after two package loads failed.
C9_Witness ==
  /\ phase = "returned"
  /\ Cardinality({x \in DOMAIN lp : lp[x].err # NoErr}) >= 2

\* C10: under fair scheduling every action fires its completion signal and
\* runActionsAnalysis finishes, whichever actions fail, are skipped or
\* panic; an action none of whose dependencies has an error runs its
\* analyzer (unless its package is ill-typed).
C10_ExecutorTerminates ==
  /\ (phase = "exec") ~>
       (phase # "exec" /\ \A k \in DOMAIN actions : actions[k].analysisDone)
  /\ [](\A k \in DOMAIN actions :
          (apc[k] = "finished" /\ actions[k].needAnalyzeSource
             /\ FailedSet(k) = {} /\ ~Gated(k)) => actions[k].ranAnalyzer)

\* C10 witness: runActionsAnalysis finished although one action panicked,
\* one returned an error and one had failed prerequisites, and an action
\* that depends on the panicked one ran its analyzer.
C10_Witness ==
  /\ phase = "returned" /\ ret.status = "panicked"
  /\ \A k \in DOMAIN actions : actions[k].analysisDone
  /\ \E k \in DOMAIN actions : actions[k].err = RunErr
  /\ \E k \in DOMAIN actions : actions[k].err.kind = "failed prerequisites"
  /\ \E k \in DOMAIN actions :
       /\ actions[k].ranAnalyzer /\ actions[k].err = NoErr /\ actions[k].result = "res"
       /\ \E d \in Deps(k) : d \in Range(panicsCh)

\* C11: the completion signal of an action is fired at most once, it has
\* been fired exactly once when the action's task has ended, and it is fired
\* only when the task has ended with the analyzer run (returned or
\* panicked) or skipped (no source analysis needed, failed prerequisites,
\* ill-typed package).
C11_SignalFiredOnce ==
  \A k \in DOMAIN actions :
    /\ actions[k].closes <= 1
    /\ actions[k].analysisDone <=> actions[k].closes = 1
    /\ (k \in DOMAIN apc /\ apc[k] = "finished") => actions[k].closes = 1
    /\ actions[k].closes >= 1 =>
         /\ k \in DOMAIN apc /\ apc[k] = "finished"
         /\ \/ ~actions[k].needAnalyzeSource
            \/ actions[k].err.kind = "failed prerequisites"
            \/ actions[k].err = SkippedErr
            \/ actions[k].ranAnalyzer

\* C11 witness: the executor has ended, every signal was fired once, one
\* action panicked, one had failed prerequisites and one was skipped
\* because its package is ill-typed.
C11_Witness ==
  /\ phase = "returned" /\ actions # <<>>
  /\ \A k \in DOMAIN actions : actions[k].closes = 1
  /\ panicsCh # <<>>
  /\ \E k \in DOMAIN actions : actions[k].err.kind = "failed prerequisites"
  /\ \E k \in DOMAIN actions : actions[k].err = SkippedErr

\* C15: every fact record in the cache was built from a fact of the package
\* the cache entry belongs to, and an object fact record from an object that
\* has an object path; the facts an action inherited from the packages it
\* imports are not written under its key.
C15_PersistedFactsAreOwn ==
  \A k \in DOMAIN cache :
    \A f \in cache[k].facts :
      /\ f.of = k[2]
      /\ f.path # "" => HasObjectPath(f.path)

\* C15 witness: an action whose fact stores hold package and object facts
\* of an imported package ran and wrote its cache entry.
C15_Witness ==
  \E k \in DOMAIN actions :
    /\ apc[k] = "finished" /\ actions[k].ranAnalyzer
    /\ \E x \in actions[k].packageFacts : x.pkg # k[2]
    /\ \E x \in actions[k].objectFacts : x.pkg # k[2]
    /\ cache[k].present /\ cache[k].facts # {}

\* the load task of package x is past loadWithFacts
LoadEnded(x) == x \in DOMAIN lp /\ lp[x].pc \in {"send", "release", "finished"}

\* C16: an action on an initial package needs source analysis from its
\* creation on, no cache read is issued for it, its package is loaded from
\* source unless it arrived type-checked, and, in a run that reaches the
\* executor, its analyzer is executed unless a prerequisite failed or the
\* package is ill-typed, whatever the cache holds.
C16_InitialPackagesAnalyzed ==
  \A k \in DOMAIN actions :
    actions[k].isInitialPkg =>
      /\ actions[k].needAnalyzeSource
      /\ actions[k].cacheReads = 0
      /\ (LoadEnded(k[2]) /\ env.pre[k[2]] = "none") => pkgs[k[2]].types = "source"
      /\ (k \in DOMAIN apc /\ apc[k] = "finished") =>
           \/ actions[k].ranAnalyzer
           \/ actions[k].err.kind = "failed prerequisites"
           \/ actions[k].err = SkippedErr /\ pkgs[k[2]].illTyped

\* C16 witness: in a second run the cache holds the facts of the action on
\* the initial package; that action ran its analyzer again, while an action
\* on an imported package read the cache and was not analyzed.
C16_Witness ==
  /\ run = 2 /\ phase = "returned"
  /\ \E k \in DOMAIN actions :
       /\ actions[k].isInitialPkg /\ prev.cache1[k].present
       /\ actions[k].ranAnalyzer /\ actions[k].cacheReads = 0
  /\ \E k \in DOMAIN actions :
       /\ ~actions[k].isInitialPkg /\ actions[k].cacheReads = 1
       /\ ~actions[k].needAnalyzeSource /\ ~actions[k].ranAnalyzer

\* the analyzer of action k panicked: Run was called and left neither a
\* result nor an error
Panicked(k) ==
  actions[k].ranAnalyzer /\ actions[k].err = NoErr /\ actions[k].result = "nil"

\* C12: a panic of an action task is recorded on panicsCh by that task; the
\* executor raises a recorded panic only when every action task has ended;
\* it ends by panicking if some action panicked and goes on to the
\* collector if none did.
C12_PanicsRaisedAfterAllTasks ==
  /\ \A k \in DOMAIN actions : Panicked(k) <=> k \in Range(panicsCh)
  /\ ret.status = "panicked" =>
       /\ panicsCh # <<>>
       /\ \A k \in DOMAIN apc : apc[k] = "finished"
  /\ phase = "extract" => panicsCh = <<>>
  /\ (phase = "returned" /\ ret.status = "returned") => panicsCh = <<>>

\* C12 witness: two actions panicked, another one returned a result, and the
\* executor ended by panicking once all of them had finished.
C12_Witness ==
  /\ phase = "returned" /\ ret.status = "panicked"
  /\ Len(panicsCh) >= 2
  /\ \E k \in DOMAIN actions : actions[k].result = "res"

-----------------------------------------------------------------------------
(* The collector on its own: extractDiagnostics applied to the action       *)
(* graph of TestWorld in every state the executor can leave it in.          *)

Messages == {"m1", "m2"}

\* the message lists an analyzer can have reported
MessageLists == UNION {[1..n -> Messages] : n \in 0..MaxDiags}

\* the actions whose analyzer may have returned an error
MayFail == {Key("S", "foo"), Key("F", "lib"), Key("F", "foo"), Key("F", "foo.test")}

\* the diagnostics of an action that reported the messages msgs
DiagsAt(w, pkg, msgs) ==
  [i \in 1..Len(msgs) |-> [pos |-> w.base[pkg] + 1, message |-> msgs[i]]]

\* the actions after runActionsAnalysis, dependencies first: an action with a
\* failed dependency has the prerequisites error and no diagnostics
RECURSIVE Settle(_, _, _, _, _, _)
Settle(w, acts, order, runErrs, diagsOf, cachedPkgs) ==
  IF order = <<>> THEN acts
  ELSE LET k    == Head(order)
           done == deferredClose(acts[k], FALSE)
           new  == IF acts[k].pkg \in cachedPkgs
                   THEN [done EXCEPT !.needAnalyzeSource = FALSE]
                   ELSE IF failedDeps(w, acts, acts[k].deps) # <<>>
                   THEN [done EXCEPT !.needAnalyzeSource = TRUE,
                                     !.err = FailedPrerequisites(w, acts, k)]
                   ELSE [done EXCEPT !.needAnalyzeSource = TRUE,
                                     !.ranAnalyzer = TRUE,
                                     !.result = IF k \in runErrs THEN "nil" ELSE "res",
                                     !.err = IF k \in runErrs THEN RunErr ELSE NoErr,
                                     !.diagnostics = diagsOf[k]]
       IN  Settle(w, [acts EXCEPT ![k] = new], Tail(order), runErrs, diagsOf, cachedPkgs)

InitExtract ==
  /\ world = "test"
  /\ input = TestWorld
  /\ nf = NoNeedFacts
  /\ run = 1
  /\ phase = "extract"
  /\ LET g == BuildGraph(TestWorld)
         rootSet == Range(g.roots)
         others  == DOMAIN g.actions \ rootSet
     IN  /\ roots = g.roots
         /\ allocs = g.allocs
         /\ apc = [k \in DOMAIN g.actions |-> "finished"]
         /\ \E runErrs \in SUBSET MayFail,
               rootMsgs \in [rootSet -> MessageLists],
               othersReport \in BOOLEAN,
               cachedPkgs \in SUBSET (TestWorld.pkgs \ InitialPkgs(TestWorld)) :
              actions = Settle(TestWorld, g.actions, g.registered, runErrs,
                               [k \in DOMAIN g.actions |->
                                  IF k \in rootSet THEN DiagsAt(TestWorld, k[2], rootMsgs[k])
                                  ELSE IF othersReport
                                  THEN DiagsAt(TestWorld, k[2], <<"m1">>)
                                  ELSE <<>>],
                               cachedPkgs)
  /\ pkgs = [x \in TestWorld.pkgs |->
               [types |-> "source", illTyped |-> FALSE, typesInfo |-> TRUE, hasErrors |-> FALSE]]
  /\ lp = [x \in TestWorld.pkgs |->
             [pc |-> "finished", doneCh |-> TRUE, wasLoaded |-> TRUE, err |-> NoErr,
              expErr |-> NoErr, raced |-> FALSE]]
  /\ loadSem = 0
  /\ exportMu = "free"
  /\ errCh = <<>>
  /\ panicsCh = <<>>
  /\ cache = EmptyCache(TestWorld)
  /\ trims = 0
  /\ env = EnvUnknown(TestWorld)
  /\ ret = NoRet
  /\ prev = [ret |-> NoRet, cache0 |-> EmptyCache(TestWorld), cache1 |-> EmptyCache(TestWorld)]

NextExtract == Collect

SpecExtract == InitExtract /\ [][NextExtract]_vars

-----------------------------------------------------------------------------
(* Properties of the collector, checked under SpecExtract.                  *)

Collected == phase = "returned" /\ ret.status = "returned" /\ errCh = <<>>

EmittedKey(d) == [posn |-> d.position, analyzer |-> d.analyzer, message |-> d.diag.message]

\* the actions reachable from the roots along deps
RECURSIVE ReachableFrom(_, _)
ReachableFrom(acts, set) ==
  LET more == set \cup UNION {Range(acts[k].deps) : k \in set}
  IN  IF more = set THEN set ELSE ReachableFrom(acts, more)

\* the position of action k in the collector's visit order (0: not visited)
VisitIndex(k) ==
  IF \E i \in DOMAIN ret.visited : ret.visited[i] = k
  THEN CHOOSE i \in DOMAIN ret.visited : ret.visited[i] = k
  ELSE 0

\* C5: the list extractDiagnostics returns never holds two entries with the
\* same (file position, analyzer, message) key.
C5_NoDuplicateDiagnostics ==
  Collected =>
    \A i, j \in DOMAIN ret.diags :
      i # j => EmittedKey(ret.diags[i]) # EmittedKey(ret.diags[j])

\* C5 witness: the same analyzer recorded the same message at the same file
\* position on two root actions of different packages, and the list came out.
C5_Witness ==
  /\ Collected
  /\ \E k1, k2 \in DOMAIN actions :
       /\ k1 # k2 /\ k1[1] = k2[1] /\ k1[2] # k2[2]
       /\ actions[k1].isroot /\ actions[k2].isroot
       /\ actions[k1].err = NoErr /\ actions[k2].err = NoErr
       /\ \E i \in DOMAIN actions[k1].diagnostics, j \in DOMAIN actions[k2].diagnostics :
            DiagKey(W, actions[k1], actions[k1].diagnostics[i])
              = DiagKey(W, actions[k2], actions[k2].diagnostics[j])
  /\ Len(ret.diags) >= 2

\* C6: the keys of the emitted diagnostics are exactly the keys of the
\* diagnostics recorded on root actions whose error is not set.
C6_EmittedKeysAreRootKeys ==
  Collected =>
    {EmittedKey(ret.diags[i]) : i \in DOMAIN ret.diags}
      = UNION {{DiagKey(W, actions[k], actions[k].diagnostics[i]) :
                  i \in DOMAIN actions[k].diagnostics} :
               k \in {x \in DOMAIN actions : actions[x].isroot /\ actions[x].err = NoErr}}

\* C6 witness: a non-root action and a root action with an error both hold
\* diagnostics, another root's diagnostics are emitted.
C6_Witness ==
  /\ Collected
  /\ \E k \in DOMAIN actions :
       ~actions[k].isroot /\ actions[k].err = NoErr /\ actions[k].diagnostics # <<>>
  /\ \E k \in DOMAIN actions :
       actions[k].isroot /\ actions[k].err # NoErr /\ actions[k].diagnostics # <<>>
  /\ ret.diags # <<>>

\* the error entries extract appends for the actions in list, in order
RECURSIVE ErrorEntries(_)
ErrorEntries(list) ==
  IF list = <<>> THEN <<>>
  ELSE (IF actions[Head(list)].err # NoErr
        THEN <<[prefix |-> actions[Head(list)].a, err |-> actions[Head(list)].err]>>
        ELSE <<>>) \o ErrorEntries(Tail(list))

\* each reachable action is visited once, after its dependencies
VisitedOnceInPostOrder ==
  /\ \A i, j \in DOMAIN ret.visited : i # j => ret.visited[i] # ret.visited[j]
  /\ Range(ret.visited) = ReachableFrom(actions, Range(roots))
  /\ \A k \in Range(ret.visited) :
       \A d \in Range(actions[k].deps) : VisitIndex(d) # 0 /\ VisitIndex(d) < VisitIndex(k)

RECURSIVE SelectSeq2(_, _)
SelectSeq2(list, keep) ==
  IF list = <<>> THEN <<>>
  ELSE (IF Head(list) \in keep THEN <<Head(list)>> ELSE <<>>) \o SelectSeq2(Tail(list), keep)

\* C7 as claimed: every reachable action is visited once, dependencies first,
\* and the error list holds an entry exactly for each root action whose error
\* is set, none for an action that is not a root.
C7_ErrorsOfRootsOnly ==
  Collected =>
    /\ VisitedOnceInPostOrder
    /\ ret.errs = ErrorEntries(SelectSeq2(ret.visited,
                                {k \in DOMAIN actions : actions[k].isroot}))

\* C7 as amended: every reachable action is visited once, dependencies first,
\* and the error list holds an entry (the error wrapped with the analyzer
\* name) exactly for each visited action whose error is set, root or not, in
\* visit order.
C7_ErrorsOfEveryVisitedAction ==
  Collected =>
    /\ VisitedOnceInPostOrder
    /\ ret.errs = ErrorEntries(ret.visited)

\* C7 witness: an action reached from two roots was visited, and an action
\* that is not a root has its error in the list.
C7_Witness ==
  /\ Collected
  /\ \E k \in DOMAIN actions :
       Cardinality({x \in Range(roots) : k \in Range(actions[x].deps)}) >= 2
  /\ \E k \in DOMAIN actions :
       /\ ~actions[k].isroot /\ actions[k].err # NoErr
       /\ \E i \in DOMAIN ret.errs : ret.errs[i] = [prefix |-> actions[k].a, err |-> actions[k].err]

-----------------------------------------------------------------------------
(* The graph builder on its own: runner.analyze applied to every acyclic    *)
(* import graph over three packages and every acyclic requires relation     *)
(* over three analyzers.  The import paths order the packages the other way *)
(* round than their names.                                                  *)

GraphPkgs == {"a", "b", "c"}

GraphAnalyzers == {"F", "S", "T"}

GraphImports ==
  {imp \in [GraphPkgs -> SUBSET GraphPkgs] :
     imp["a"] \subseteq {"b", "c"} /\ imp["b"] \subseteq {"c"} /\ imp["c"] = {}}

GraphRequires ==
  {req \in [GraphAnalyzers -> {<<>>, <<"S">>, <<"T">>, <<"S", "T">>, <<"T", "S">>}] :
     req["S"] \in {<<>>, <<"T">>} /\ req["T"] = <<>>}

GraphWorld(imp, req, ft, ini, ans) ==
  [ pkgs      |-> GraphPkgs,
    imports   |-> imp,
    path      |-> [x \in GraphPkgs |->
                     IF x = "a" THEN <<122>> ELSE IF x = "b" THEN <<121>> ELSE <<120>>],
    file      |-> [x \in GraphPkgs |->
                     IF x = "a" THEN "a.go" ELSE IF x = "b" THEN "b.go" ELSE "c.go"],
    base      |-> [x \in GraphPkgs |->
                     IF x = "a" THEN 0 ELSE IF x = "b" THEN 10 ELSE 20],
    initial   |-> ini,
    analyzers |-> ans,
    requires  |-> req,
    factTypes |-> ft,
    runDespiteErrors |-> [a \in GraphAnalyzers |-> FALSE],
    name      |-> [a \in GraphAnalyzers |->
                     IF a = "F" THEN <<70>> ELSE IF a = "S" THEN <<83>> ELSE <<84>>],
    pre       |-> [x \in GraphPkgs |-> {"none"}],
    exp       |-> [x \in GraphPkgs |-> {"ok"}],
    src       |-> [x \in GraphPkgs |-> {"ok"}],
    outcomes  |-> [k \in GraphAnalyzers \X GraphPkgs |-> {"ok"}] ]

GraphWorlds ==
  {GraphWorld(imp, req, ft, ini, ans) :
     imp \in GraphImports, req \in GraphRequires, ft \in [GraphAnalyzers -> {0, 1}],
     ini \in {<<"a">>, <<"a", "b">>, <<"b", "a">>}, ans \in {<<"F">>, <<"F", "S">>}}

InitGraph ==
  /\ world = "graph"
  /\ input \in GraphWorlds
  /\ nf = NoNeedFacts
  /\ run = 0
  /\ phase = "start"
  /\ actions = <<>>
  /\ roots = <<>>
  /\ allocs = <<>>
  /\ pkgs = [x \in input.pkgs |-> NewPackage]
  /\ lp = [x \in input.pkgs |-> NewLoadingPackage]
  /\ loadSem = 0
  /\ exportMu = "free"
  /\ errCh = <<>>
  /\ apc = <<>>
  /\ panicsCh = <<>>
  /\ cache = EmptyCache(input)
  /\ trims = 0
  /\ env = EnvUnknown(input)
  /\ ret = NoRet
  /\ prev = [ret |-> NoRet, cache0 |-> cache, cache1 |-> cache]

NextGraph == RunStart

SpecGraph == InitGraph /\ [][NextGraph]_vars

\* the analyzers reachable from the set as through Requires
RECURSIVE TransRequires(_, _)
TransRequires(w, as) ==
  LET more == as \cup UNION {Range(w.requires[a]) : a \in as}
  IN  IF more = as THEN as ELSE TransRequires(w, more)

\* C13: the dependency list of the action (a, p) is the action (req, p) for
\* each req of a.Requires, in order, followed, exactly when a declares a fact
\* type, by the action (a, q) for each direct import q of p in ascending
\* import-path order.  An analyzer without fact types has no edge to another
\* package, every transitively required analyzer has an action on p
\* reachable from (a, p), and no action is reachable from its own
\* dependencies.
C13_DependencyLists ==
  \A k \in DOMAIN actions :
    LET a    == k[1]
        p    == k[2]
        d    == actions[k].deps
        nreq == Len(W.requires[a])
        imps == SubSeq(d, nreq + 1, Len(d))
    IN  /\ Len(d) >= nreq
        /\ \A i \in 1..nreq : d[i] = <<W.requires[a][i], p>>
        /\ IF W.factTypes[a] > 0
           THEN /\ Len(imps) = Cardinality(W.imports[p])
                /\ {x[2] : x \in Range(imps)} = W.imports[p]
                /\ \A i \in DOMAIN imps : imps[i][1] = a
                /\ \A i, j \in DOMAIN imps :
                     i < j => StrLess(W.path[imps[i][2]], W.path[imps[j][2]])
           ELSE imps = <<>>
        /\ W.factTypes[a] = 0 => \A x \in Range(d) : x[2] = p
        /\ Range(d) \subseteq DOMAIN actions
        /\ \A b \in TransRequires(W, {a}) : <<b, p>> \in ReachableFrom(actions, {k})
        /\ k \notin ReachableFrom(actions, Range(d))

\* C13 witness: F declares a fact type and requires S, which requires T; the
\* action of F on a package with two imports has four dependencies, and an
\* analyzer without fact types has an action on a package with imports.
C13_Witness ==
  /\ world = "graph" /\ phase = "load"
  /\ W.requires["F"] = <<"S">> /\ W.requires["S"] = <<"T">>
  /\ W.factTypes["F"] = 1 /\ W.factTypes["S"] = 0
  /\ W.imports["a"] = {"b", "c"}
  /\ actions[<<"F", "a">>].deps = <<<<"S", "a">>, <<"F", "c">>, <<"F", "b">>>>
  /\ actions[<<"S", "a">>].deps = <<<<"T", "a">>>>

\* C14: mkAction allocates exactly one action for each (analyzer, package)
\* pair that is needed, however many paths lead to the pair; every
\* dependency list and the roots list name actions of the graph.
C14_OneActionPerPair ==
  /\ \A i, j \in DOMAIN allocs : allocs[i] = allocs[j] => i = j
  /\ Range(allocs) = DOMAIN actions
  /\ \A k \in DOMAIN actions :
       /\ actions[k].a = k[1] /\ actions[k].pkg = k[2]
       /\ Range(actions[k].deps) \subseteq DOMAIN actions
  /\ Range(roots) \subseteq DOMAIN actions
  /\ DOMAIN actions = ReachableFrom(actions, Range(roots))

\* C14 witness: an action is required along two paths (F requires S and T,
\* S requires T), an action is reached through two import paths, and a root
\* is also a dependency of another root.
C14_Witness ==
  /\ world = "graph" /\ phase = "load"
  /\ W.requires["F"] = <<"S", "T">> /\ W.requires["S"] = <<"T">>
  /\ W.factTypes["F"] = 1
  /\ W.imports["a"] = {"b", "c"} /\ W.imports["b"] = {"c"}
  /\ W.initial = <<"a", "b">>
  /\ <<"F", "b">> \in Range(roots)
  /\ <<"F", "b">> \in Range(actions[<<"F", "a">>].deps)
  /\ <<"F", "c">> \in Range(actions[<<"F", "a">>].deps)
  /\ <<"F", "c">> \in Range(actions[<<"F", "b">>].deps)
  /\ Len(allocs) = Cardinality(DOMAIN actions)


-----------------------------------------------------------------------------
(* NeedFacts on its own, one iteration of its loop at a time, for every     *)
(* requires relation over three analyzers, cyclic ones included.            *)

NeedFactsRequires ==
  {req \in [GraphAnalyzers -> {<<>>, <<"F">>, <<"S">>, <<"T">>, <<"S", "T">>, <<"T", "F">>}] :
     /\ req["S"] \in {<<>>, <<"T">>, <<"F">>, <<"T", "F">>}
     /\ req["T"] \in {<<>>, <<"F">>, <<"S">>}}

NeedFactsWorlds ==
  {GraphWorld([x \in GraphPkgs |-> {}], req, ft, <<"a">>, ans) :
     req \in NeedFactsRequires, ft \in [GraphAnalyzers -> {0, 1}],
     ans \in {<<"F">>, <<"F", "S">>, <<"S", "T">>, <<"T", "T">>}}

InitNeedFacts ==
  /\ world = "needfacts"
  /\ input \in NeedFactsWorlds
  /\ nf = [q |-> input.analyzers, seen |-> {}, ret |-> "?"]
  /\ run = 0
  /\ phase = "needfacts"
  /\ actions = <<>>
  /\ roots = <<>>
  /\ allocs = <<>>
  /\ pkgs = [x \in input.pkgs |-> NewPackage]
  /\ lp = [x \in input.pkgs |-> NewLoadingPackage]
  /\ loadSem = 0
  /\ exportMu = "free"
  /\ errCh = <<>>
  /\ apc = <<>>
  /\ panicsCh = <<>>
  /\ cache = EmptyCache(input)
  /\ trims = 0
  /\ env = EnvUnknown(input)
  /\ ret = NoRet
  /\ prev = [ret |-> NoRet, cache0 |-> cache, cache1 |-> cache]

\* the requirements of a are not followed
EnqueueNothing(w, q, a) == q

\* q = append(q, a.Requires...)
Enqueue(w, q, a) == q \o w.requires[a]

\* one iteration of the loop of NeedFacts, or its return after the loop
NeedFactsStep ==
  /\ phase = "needfacts"
  /\ nf.ret = "?"
  /\ IF nf.q = <<>>
     THEN nf' = [nf EXCEPT !.ret = "false"]
     ELSE LET a == Head(nf.q)
              q == Tail(nf.q)
          IN  IF a \in nf.seen
              THEN nf' = [nf EXCEPT !.q = q]
              ELSE IF W.factTypes[a] > 0
              THEN nf' = [q |-> q, seen |-> nf.seen \cup {a}, ret |-> "true"]
              ELSE nf' = [q |-> Enqueue(W, q, a), seen |-> nf.seen \cup {a}, ret |-> "?"]
  /\ UNCHANGED <<world, input, run, phase, actions, roots, allocs, pkgs, lp, loadSem, exportMu,
                 errCh, apc, panicsCh, cache, trims, env, ret, prev>>

NextNeedFacts == NeedFactsStep

\* the call runs on: an iteration that can be taken is taken
SpecNeedFacts == InitNeedFacts /\ [][NextNeedFacts]_vars /\ WF_vars(NeedFactsStep)

\* C17: NeedFacts returns, and it returns true exactly when an analyzer
\* reachable from the given ones through zero or more Requires steps
\* declares a fact type.
C17_NeedFacts ==
  /\ [](nf.ret # "?" =>
          (nf.ret = "true" <=>
             \E b \in TransRequires(W, Range(W.analyzers)) : W.factTypes[b] > 0))
  /\ <>(nf.ret # "?")

\* C17 witness: two analyzers share a requirement, which in turn requires
\* one of them; none declares a fact type, and NeedFacts returned false
\* after seeing the three of them.
C17_Witness ==
  /\ world = "needfacts" /\ nf.ret = "false"
  /\ W.analyzers = <<"F", "S">>
  /\ W.requires["F"] = <<"T">> /\ W.requires["S"] = <<"T">> /\ W.requires["T"] = <<"F">>
  /\ nf.seen = {"F", "S", "T"}



-----------------------------------------------------------------------------
\* The loader on its own: loadPackagesAndFacts over a diamond of imports.
\* The initial package top imports left and right, and both import base, so
\* that the tasks of left and right run at the same time.

LoadPkgs == {"top", "left", "right", "base"}

LoadWorld ==
  [ pkgs      |-> LoadPkgs,
    imports   |-> [x \in LoadPkgs |->
                     IF x = "top" THEN {"left", "right"}
                     ELSE IF x = "base" THEN {} ELSE {"base"}],
    path      |-> [x \in LoadPkgs |->
                     IF x = "top" THEN <<116>> ELSE IF x = "left" THEN <<108>>
                     ELSE IF x = "right" THEN <<114>> ELSE <<98>>],
    file      |-> [x \in LoadPkgs |->
                     IF x = "top" THEN "top.go" ELSE IF x = "left" THEN "left.go"
                     ELSE IF x = "right" THEN "right.go" ELSE "base.go"],
    base      |-> [x \in LoadPkgs |->
                     IF x = "top" THEN 0 ELSE IF x = "left" THEN 10
                     ELSE IF x = "right" THEN 20 ELSE 30],
    initial   |-> <<"top">>,
    analyzers |-> <<"F">>,
    requires  |-> [a \in {"F"} |-> <<>>],
    factTypes |-> [a \in {"F"} |-> 1],
    runDespiteErrors |-> [a \in {"F"} |-> FALSE],
    name      |-> [a \in {"F"} |-> <<70>>],
    pre       |-> [x \in LoadPkgs |-> {"none"}],
    exp       |-> [x \in LoadPkgs |-> {"ok", "bad"}],
    src       |-> [x \in LoadPkgs |-> {"ok", "bad"}],
    outcomes  |-> [k \in {"F"} \X LoadPkgs |-> {"ok"}] ]

\* a first run, from an empty cache or from one an earlier session left
InitLoad ==
  /\ world = "load"
  /\ input = LoadWorld
  /\ nf = NoNeedFacts
  /\ run = 0
  /\ phase = "start"
  /\ actions = <<>>
  /\ roots = <<>>
  /\ allocs = <<>>
  /\ pkgs = [x \in input.pkgs |-> NewPackage]
  /\ lp = [x \in input.pkgs |-> NewLoadingPackage]
  /\ loadSem = 0
  /\ exportMu = "free"
  /\ errCh = <<>>
  /\ apc = <<>>
  /\ panicsCh = <<>>
  /\ cache \in {EmptyCache(input)} \cup WarmCaches(input)
  /\ trims = 0
  /\ env = EnvUnknown(input)
  /\ ret = NoRet
  /\ prev = [ret |-> NoRet, cache0 |-> cache, cache1 |-> cache]

NextLoad ==
  \/ RunStart
  \/ \E x \in DOMAIN lp : LpWait(x) \/ LpAcquire(x) \/ LpLoad(x)
  \/ \E x \in DOMAIN lp : LpLock(x) \/ LpDecode(x) \/ LpSource(x) \/ LpCheck(x)
  \/ \E x \in DOMAIN lp : LpClose(x) \/ LpSend(x) \/ LpRelease(x)
  \/ LoadJoin

SpecLoad == InitLoad /\ [][NextLoad]_vars

\* loadWithFacts of x was called and has not returned
Loading(x) == lp[x].pc \in {"lock", "decode", "source", "check", "close"}

\* the tasks inside loadFromExportData
Decoding == {x \in DOMAIN lp : lp[x].pc = "decode"}

\* C18: the load of a package starts only after the completion signal of
\* each of its direct imports has fired, and the completion signal of a
\* package fires only after its own load has ended; so no package is loaded
\* while the load of one of its imports is still in progress.
C18_LoadAfterImports ==
  \A x \in DOMAIN lp :
    /\ lp[x].pc # "wait" => \A imp \in W.imports[x] : lp[imp].doneCh
    /\ lp[x].doneCh => lp[x].pc \in {"send", "release", "finished"}
    /\ Loading(x) => \A imp \in W.imports[x] : ~Loading(imp)

\* two packages that import the same package are being loaded at once, one
\* of them type-checking against it
C18_Witness ==
  \E x \in DOMAIN lp : \E y \in DOMAIN lp \ {x} :
    /\ lp[x].pc = "check"
    /\ Loading(y)
    /\ W.imports[x] \cap W.imports[y] # {}

\* C19: at most one task is inside loadFromExportData at any time; the mutex
\* is held exactly while a task is in there, so it is free again after every
\* return, the error returns included, and a later decode can take it.
C19_OneDecodeAtATime ==
  /\ Cardinality(Decoding) <= 1
  /\ \A x \in Decoding : exportMu = x
  /\ Decoding = {} => exportMu = "free"

\* a task is decoding after the decode of another package has failed
C19_Witness ==
  \E x \in Decoding : \E y \in DOMAIN lp \ {x} :
    /\ lp[y].expErr = ExportErr
    /\ exportMu = x

\* C20: while a task decodes the export data of a package, no other task
\* that does not hold the mutex reads or writes the types.Package of one of
\* the transitive imports of that package; a type check of another package
\* that imports one of them does not run during the decode.
C20_NoAccessDuringDecode ==
  \A x \in Decoding : \A y \in DOMAIN lp \ {x} :
    lp[y].pc = "check" => DecodeView(W, x) \cap CheckReads(W, y) = {}


\* the tasks between loadSem <- struct{}{} and <-loadSem
HoldsPermit(x) ==
  lp[x].pc \in {"load", "lock", "decode", "source", "check", "close", "send", "release"}

\* C21: the tasks that hold a permit of loadSem are never more than its
\* capacity, and a task holds a permit only after the completion signals of
\* all its imports have fired: a task waiting for an import holds none.
C21_PermitsWithinCapacity ==
  /\ Cardinality({x \in DOMAIN lp : HoldsPermit(x)}) = loadSem
  /\ loadSem <= LoadSemCap
  /\ \A x \in DOMAIN lp :
       HoldsPermit(x) => \A imp \in W.imports[x] : lp[imp].doneCh

\* every permit is taken while a task whose imports are loaded asks for one
C21_Witness ==
  /\ loadSem = LoadSemCap
  /\ \E x \in DOMAIN lp : lp[x].pc = "acquire" /\ W.imports[x] # {}



\* acyclic import graphs over the packages of LoadWorld: the diamond, a
\* chain, and a package that imports all the others
LoadGraphs ==
  { LoadWorld.imports,
    [x \in LoadPkgs |->
       IF x = "top" THEN {"left"} ELSE IF x = "left" THEN {"right"}
       ELSE IF x = "right" THEN {"base"} ELSE {}],
    [x \in LoadPkgs |-> IF x = "top" THEN {"left", "right", "base"} ELSE {}] }

\* the last run of a session, from an empty cache, over one of the graphs
InitLiveLoad ==
  /\ world = "load"
  /\ input \in {[LoadWorld EXCEPT !.imports = g] : g \in LoadGraphs}
  /\ nf = NoNeedFacts
  /\ run = MaxRuns - 1
  /\ phase = "start"
  /\ actions = <<>>
  /\ roots = <<>>
  /\ allocs = <<>>
  /\ pkgs = [x \in input.pkgs |-> NewPackage]
  /\ lp = [x \in input.pkgs |-> NewLoadingPackage]
  /\ loadSem = 0
  /\ exportMu = "free"
  /\ errCh = <<>>
  /\ apc = <<>>
  /\ panicsCh = <<>>
  /\ cache = EmptyCache(input)
  /\ trims = 0
  /\ env = EnvUnknown(input)
  /\ ret = NoRet
  /\ prev = [ret |-> NoRet, cache0 |-> cache, cache1 |-> cache]

LoadStep ==
  \/ \E x \in DOMAIN lp : LpWait(x) \/ LpAcquire(x) \/ LpLoad(x)
  \/ \E x \in DOMAIN lp : LpLock(x) \/ LpDecode(x) \/ LpSource(x) \/ LpCheck(x)
  \/ \E x \in DOMAIN lp : LpClose(x) \/ LpSend(x) \/ LpRelease(x)
  \/ LoadJoin

\* the load tasks are goroutines: while one of them, or the wg.Wait() of
\* loadPackagesAndFacts, can take a step, one of them eventually does
LiveSpecLoad == InitLiveLoad /\ [][NextLoad]_vars /\ WF_vars(LoadStep)

\* C28: under fair scheduling every load task fires its completion signal
\* and gives its permit back, and loadPackagesAndFacts returns, also when
\* loads fail: a failed load has fired its completion signal, and a task
\* that sends its error finds room in errCh.
C28_LoaderTerminates ==
  /\ (phase = "load") ~>
       /\ phase # "load"
       /\ loadSem = 0
       /\ \A x \in DOMAIN lp : lp[x].doneCh /\ lp[x].pc = "finished"
  /\ [](\A x \in DOMAIN lp :
          /\ lp[x].pc = "send" => Len(errCh) < Cardinality(DOMAIN lp)
          /\ lp[x].pc \in {"send", "release", "finished"} => lp[x].doneCh)

\* loadPackagesAndFacts returned an error after the load of a package
\* failed and the task of a package that imports it finished
C28_Witness ==
  /\ phase = "returned" /\ loadSem = 0
  /\ \E x \in DOMAIN lp : \E y \in DOMAIN lp :
       /\ x \in W.imports[y]
       /\ lp[x].err # NoErr /\ lp[x].doneCh
       /\ lp[y].pc = "finished"

-----------------------------------------------------------------------------
\* The cached facts in the load of a package, over whole runs.

\* loadFromExportData of x has returned nil: x is not initial and did not
\* arrive type-checked
ExportDataLoaded(x) ==
  /\ x \in DOMAIN lp
  /\ x \notin InitialPkgs(W)
  /\ env.pre[x] = "none"
  /\ lp[x].pc \in {"source", "check", "close", "send", "release", "finished"}
  /\ lp[x].expErr = NoErr

\* the actions of x whose cached facts did not load
FactsMissing(x) == {k \in ActionsOf(actions, x) : ~actions[k].loadCachedFactsOk}

\* loadFromSource of x was called
SourceLoadStarted(x) ==
  \/ lp[x].pc = "source"
  \/ lp[x].pc \in {"check", "close", "send", "release", "finished"} /\ pkgs[x].types = "source"

\* C22: for a package that is not initial and did not arrive type-checked,
\* the cached facts of its actions are consulted only after its export data
\* loaded; once all its actions were inspected, if the facts of some action
\* are missing then that action and its dependencies on the same package
\* need source analysis and the package is loaded from source into a new
\* types.Package, and if the facts of all loaded then no source load runs and
\* none of its actions needs source analysis.
C22_CachedFactsAfterExportData ==
  \A x \in DOMAIN lp :
    (x \notin InitialPkgs(W) /\ env.pre[x] = "none" /\ W.path[x] # UnsafePath) =>
      /\ \A k \in ActionsOf(actions, x) :
           actions[k].loadCachedFactsDone => ExportDataLoaded(x)
      /\ ExportDataLoaded(x) =>
           /\ \A k \in ActionsOf(actions, x) : actions[k].loadCachedFactsDone
           /\ \A k \in FactsMissing(x) :
                /\ actions[k].needAnalyzeSource
                /\ \A d \in Range(actions[k].deps) :
                     actions[d].pkg = x => actions[d].needAnalyzeSource
           /\ FactsMissing(x) # {} => SourceLoadStarted(x)
           /\ FactsMissing(x) = {} =>
                /\ ~SourceLoadStarted(x)
                /\ pkgs[x].types = "export"
                /\ \A k \in ActionsOf(actions, x) : ~actions[k].needAnalyzeSource

\* the export data of a package loaded, the facts of one of its actions were
\* not in the cache, and the package was loaded from source; the action has
\* a dependency on the same package
C22_Witness ==
  \E x \in DOMAIN lp :
    /\ ExportDataLoaded(x) /\ lp[x].pc = "finished" /\ lp[x].err = NoErr
    /\ pkgs[x].types = "source"
    /\ \E k \in FactsMissing(x) : \E d \in Range(actions[k].deps) : actions[d].pkg = x



\* loadFromExportData of x returned an error and loadWithFacts has returned
ExportDataFailed(x) == x \in DOMAIN lp /\ lp[x].expErr # NoErr /\ LoadEnded(x)

\* C24 as stated: when the export data of a package fails to load, a source
\* load is still attempted, the load of the package reports an error, and
\* that error is the error of the export data whether or not the source load
\* fails.
C24_ExportErrorAlwaysReturned ==
  \A x \in DOMAIN lp :
    ExportDataFailed(x) =>
      /\ pkgs[x].types = "source"
      /\ lp[x].err # NoErr
      /\ lp[x].err = lp[x].expErr

\* C24: when the export data of a package fails to load, a source load is
\* still attempted and the load of the package reports an error: the error
\* of the source load if that fails too, and the error of the export data
\* only if the source load succeeds.
C24_SourceErrorElseExportError ==
  \A x \in DOMAIN lp :
    ExportDataFailed(x) =>
      LET srcErr == loadFromSource(W, pkgs, x, env.src[x]).err
      IN  /\ pkgs[x].types = "source"
          /\ lp[x].err # NoErr
          /\ srcErr # NoErr => lp[x].err = srcErr /\ lp[x].err # lp[x].expErr
          /\ srcErr = NoErr => lp[x].err = lp[x].expErr /\ pkgs[x].hasErrors

\* the export data of a package failed to load and so did its sources; in
\* another package only the export data failed
C24_Witness ==
  /\ \E x \in DOMAIN lp : ExportDataFailed(x) /\ lp[x].err = ParseErr
  /\ \E x \in DOMAIN lp : ExportDataFailed(x) /\ lp[x].err = ExportErr


\* this step writes to the fact stores of action k
StoresWritten(k) ==
  \/ actions'[k].objectFacts # actions[k].objectFacts
  \/ actions'[k].packageFacts # actions[k].packageFacts

\* this step is taken by the load task of package x
LoadTaskStep(x) == phase = "load" /\ lp'[x].pc # lp[x].pc

\* this step is act.analyze of action k from the inputs on: it reads the
\* stores of the dependencies and writes those of k
AnalyzeStep(k) == phase = "exec" /\ apc[k] = "run" /\ apc'[k] = "finished"

\* C25: within a run, the fact stores of an action are written only before
\* its completion signal, by the load task of its package or by its own
\* action task; an action task reads the stores of its dependencies only
\* after their completion signals; and the needs-source flag of an action is
\* written only by the load task of its package, before the executor starts.
C25_StoresWrittenBeforeSignal ==
  [][run' = run =>
       \A k \in DOMAIN actions :
         /\ StoresWritten(k) =>
              /\ ~actions[k].analysisDone
              /\ LoadTaskStep(actions[k].pkg) \/ AnalyzeStep(k)
         /\ AnalyzeStep(k) =>
              \A d \in Range(actions[k].deps) :
                actions[d].analysisDone /\ ~StoresWritten(d)
         /\ actions'[k].needAnalyzeSource # actions[k].needAnalyzeSource =>
              /\ LoadTaskStep(actions[k].pkg)
              /\ \A j \in DOMAIN apc : apc[j] = "idle"]_vars

\* an action whose analyzer ran has inherited the facts that the load task
\* of an imported package read from the cache into the store of the action
\* it depends on
C25_Witness ==
  \E k \in DOMAIN actions : \E d \in Range(actions[k].deps) :
    /\ actions[d].pkg # actions[k].pkg
    /\ actions[d].cacheReads = 1 /\ ~actions[d].ranAnalyzer /\ actions[d].analysisDone
    /\ actions[d].packageFacts # {}
    /\ actions[k].ranAnalyzer
    /\ actions[d].packageFacts \subseteq actions[k].packageFacts


\* what inheritFacts hands to a dependent of dep, whatever the identity of
\* the types.Package the keys point to
InheritedFrom(dep, depUniv) ==
  LET got == inheritFacts([objectFacts |-> {}, packageFacts |-> {}], dep, depUniv)
  IN  [object  |-> {[pkg |-> k.pkg, obj |-> k.obj] : k \in got.objectFacts},
       package |-> {k.pkg : k \in got.packageFacts}]

\* action d as a later run has it when its package is loaded from export
\* data and its stores are filled from the cache as it is now
FilledFromCache(d) ==
  loadPersistedFacts(cache, NewAction(W, d[1], d[2], actions[d].deps), "export").act

\* action d was analyzed from source without error and wrote its facts
AnalyzedAndPersisted(d) ==
  /\ actions[d].ranAnalyzer /\ actions[d].analysisDone /\ actions[d].err = NoErr
  /\ W.factTypes[d[1]] > 0

\* C26: the facts a dependent inherits from an action are the same when the
\* action was analyzed from source in this run and when it is skipped and
\* its stores are filled from the cache that this run wrote.
C26_SameFactsFromSourceAndCache ==
  \A d \in DOMAIN actions :
    AnalyzedAndPersisted(d) =>
      InheritedFrom(actions[d], pkgs[d[2]].types) = InheritedFrom(FilledFromCache(d), "export")


\* the cache entry of action k was written in this run
EntryWritten(k) == cache[k] # prev.cache1[k]

\* C27: a facts cache entry is written for an action only when its analyzer
\* was run and returned without error; an action that was skipped for an
\* ill-typed package, whose analyzer returned an error, or that had failed
\* prerequisites writes nothing.
C27_CacheWrittenOnlyOnSuccess ==
  \A k \in DOMAIN actions :
    EntryWritten(k) => actions[k].ranAnalyzer /\ actions[k].err = NoErr

-----------------------------------------------------------------------------
\* Whole runs over a chain of required analyzers: F, which has a fact type,
\* requires S, and S requires T; the initial package p imports q.

ChainPkgs == {"p", "q"}

ChainAnalyzers == {"F", "S", "T"}

ChainWorld ==
  [ pkgs      |-> ChainPkgs,
    imports   |-> [x \in ChainPkgs |-> IF x = "p" THEN {"q"} ELSE {}],
    path      |-> [x \in ChainPkgs |-> IF x = "p" THEN <<112>> ELSE <<113>>],
    file      |-> [x \in ChainPkgs |-> IF x = "p" THEN "p.go" ELSE "q.go"],
    base      |-> [x \in ChainPkgs |-> IF x = "p" THEN 0 ELSE 10],
    initial   |-> <<"p">>,
    analyzers |-> <<"F">>,
    requires  |-> [a \in ChainAnalyzers |->
                     IF a = "F" THEN <<"S">> ELSE IF a = "S" THEN <<"T">> ELSE <<>>],
    factTypes |-> [a \in ChainAnalyzers |-> IF a = "F" THEN 1 ELSE 0],
    runDespiteErrors |-> [a \in ChainAnalyzers |-> FALSE],
    name      |-> [a \in ChainAnalyzers |->
                     IF a = "F" THEN <<70>> ELSE IF a = "S" THEN <<83>> ELSE <<84>>],
    pre       |-> [x \in ChainPkgs |-> {"none"}],
    exp       |-> [x \in ChainPkgs |-> {"ok", "bad"}],
    src       |-> [x \in ChainPkgs |-> {"ok", "bad"}],
    outcomes  |-> [k \in ChainAnalyzers \X ChainPkgs |-> {"ok", "err"}] ]

\* a run from an empty cache or from one an earlier session left
InitChain ==
  /\ world = "chain"
  /\ input = ChainWorld
  /\ nf = NoNeedFacts
  /\ run = 0
  /\ phase = "start"
  /\ actions = <<>>
  /\ roots = <<>>
  /\ allocs = <<>>
  /\ pkgs = [x \in input.pkgs |-> NewPackage]
  /\ lp = [x \in input.pkgs |-> NewLoadingPackage]
  /\ loadSem = 0
  /\ exportMu = "free"
  /\ errCh = <<>>
  /\ apc = <<>>
  /\ panicsCh = <<>>
  /\ cache \in {EmptyCache(input)} \cup WarmCaches(input)
  /\ trims = 0
  /\ env = EnvUnknown(input)
  /\ ret = NoRet
  /\ prev = [ret |-> NoRet, cache0 |-> cache, cache1 |-> cache]

SpecChain == InitChain /\ [][Next]_vars

\* the dependencies of action k on its own package
HorizontalDeps(k) == {d \in Range(actions[k].deps) : actions[d].pkg = actions[k].pkg}

\* C23: once the packages are loaded, the dependencies on the same package
\* of every action that needs source analysis need it too, so an analyzer
\* that is executed is given, for each analyzer it requires, the result of a
\* run of that analyzer on the package.
C23_HorizontalDepsNeedSource ==
  phase = "exec" =>
    \A k \in DOMAIN actions :
      /\ actions[k].needAnalyzeSource =>
           \A d \in HorizontalDeps(k) : actions[d].needAnalyzeSource
      /\ actions[k].ranAnalyzer =>
           \A d \in HorizontalDeps(k) : actions[d].ranAnalyzer

====
